---------------------------- MODULE Spec2Model ----------------------------
(***************************************************************************)
(* State-machine model of the agent orchestration loop and its MCP setup   *)
(* (backend/agent/run.py), of the MCP tool bridge                          *)
(* (backend/agent/tools/utils/mcp_tool_executor.py), of the session        *)
(* manager (backend/utils/session_manager.py) and of the YouTube           *)
(* service under suna-youtube-mcp/backend: the streaming upload engine     *)
(* (youtube/upload_stream.py), the file manager (youtube/file_manager.py), *)
(* the upload routes and jobs (api/youtube/upload.py, youtube/tasks.py),   *)
(* the channel manager (youtube/channels.py, youtube/oauth.py) and the     *)
(* tools built on them (tools/youtube/upload_video.py, loader.py).         *)
(*                                                                         *)
(* The specifications share the variables of this module:                  *)
(*   Spec          AgentRunner.run, one run from setup to the end of       *)
(*                 stream                                                  *)
(*   SpecTools     the tool-registration prefix of AgentRunner.run over    *)
(*                 all agent configurations                                *)
(*   SpecUpload    one upload of YouTubeStreamingUpload with a concurrent  *)
(*                 cancel_upload                                           *)
(*   SpecFiles     the calls of YouTubeFileManager as time passes          *)
(*   SpecRoutes    the upload routes with the file-manager calls made for  *)
(*                 a user                                                  *)
(*   SpecJobs      the background jobs of the upload records               *)
(*   SpecChannels  the calls on one YouTubeMCPChannels instance, the       *)
(*                 disconnect route and the tools loader                   *)
(*   SpecUploadTool  UploadVideoTool.execute over staged uploads           *)
(*   SpecMcp       MCP registration of an agent configuration and one call *)
(*                 of the MCP tool bridge                                  *)
(*   SpecViews     the masked views of the channels of a user and the      *)
(*                 refresh of their tokens                                 *)
(*   SpecMessages  the image_context messages of a thread across the turns *)
(*                 of a run                                                *)
(*   SpecSessions  overlapping update_session calls on one session, with   *)
(*                 its removal                                             *)
(***************************************************************************)
EXTENDS Integers, Sequences, FiniteSets, TLC

(***************************************************************************)
(* Bounds of the model                                                     *)
(***************************************************************************)
\* largest max_iterations a run is configured with
MaxIter == 2
\* largest number of chunks one response stream delivers
MaxChunks == 2

None == "None"

(***************************************************************************)
(* Assistant text.  A text is a sequence of fragments; the closing tags    *)
(* the loop looks for are sequences of fragments too, so that a tag can    *)
(* lie inside one chunk or be cut by a chunk boundary.  "x" is any text    *)
(* without a tag; "</comp" and "lete>" are the two halves of </complete>.   *)
(***************************************************************************)

TAG_ASK == <<"</ask>">>
TAG_COMPLETE == <<"</comp", "lete>">>
TAG_TAKEOVER == <<"</web-browser-takeover>">>

\* the texts an assistant chunk may carry: nothing, plain text, each tag
\* whole (alone or inside other text), and pieces of a tag
Texts ==
    { <<>>, <<"x">>,
      TAG_ASK, TAG_TAKEOVER, TAG_COMPLETE,
      <<"x", "</comp", "lete>">>,
      <<"</comp">>, <<"lete>">>, <<"lete>", "</comp">> }

\* Python's  tag in text  (substring test)
Contains(text, tag) ==
    \E i \in 1..(Len(text) - Len(tag) + 1) :
        SubSeq(text, i, i + Len(tag) - 1) = tag

ContainsClosingTag(text) ==
    Contains(text, TAG_ASK) \/ Contains(text, TAG_COMPLETE) \/ Contains(text, TAG_TAKEOVER)

\* run.py 676-684: the terminating "tool" named by one chunk's text, None if none
xml_tool(assistant_text) ==
    IF Contains(assistant_text, TAG_ASK) THEN "ask"
    ELSE IF Contains(assistant_text, TAG_COMPLETE) THEN "complete"
    ELSE IF Contains(assistant_text, TAG_TAKEOVER) THEN "web-browser-takeover"
    ELSE None

TERMINATING_TOOLS == {"ask", "complete", "web-browser-takeover"}

(***************************************************************************)
(* Chunks of a response stream (dictionaries produced by the thread        *)
(* execution engine).  term is metadata.agent_should_terminate, tool the   *)
(* function_name / xml_tag_name of the chunk's content ("" when absent).   *)
(***************************************************************************)
StatusChunks ==
    { [type |-> "status", status |-> "error", term |-> FALSE, tool |-> "", text |-> <<>>],
      [type |-> "status", status |-> "other", term |-> FALSE, tool |-> "", text |-> <<>>],
      [type |-> "status", status |-> "other", term |-> TRUE, tool |-> "", text |-> <<>>],
      [type |-> "status", status |-> "other", term |-> TRUE, tool |-> "fn", text |-> <<>>] }

AssistantChunks ==
    { [type |-> "assistant", status |-> "", term |-> FALSE, tool |-> "", text |-> t] : t \in Texts }

Chunks == StatusChunks \cup AssistantChunks

\* what the caller of run() receives: a chunk forwarded from the stream ...
\* (tag: the chunk's own text contains a closing tag)
Forwarded(c) == [src |-> "stream", type |-> c.type, status |-> c.status, term |-> c.term,
                 tag |-> ContainsClosingTag(c.text)]
\* ... or a status chunk built by run() itself (582-586, 709-713, 718-722)
RunStatus(s) == [src |-> "run", type |-> "status", status |-> s, term |-> FALSE, tag |-> FALSE]
\* ... or the error dictionary returned by run_thread (627-629)
EngineError == [src |-> "engine", type |-> "status", status |-> "error", term |-> FALSE,
                tag |-> FALSE]

(***************************************************************************)
(* Tool registration (ToolManager)                                         *)
(***************************************************************************)
CustomToolNames == {"sb_shell_tool", "web_search_tool"}

\* maps from tool name to its enabled flag, the empty map included
ToolMaps == UNION {[S -> BOOLEAN] : S \in SUBSET CustomToolNames}

\* agentpress_tools of the agent configuration: absent, or a map
AgentpressTools ==
    {[present |-> FALSE, map |-> <<>>]} \cup {[present |-> TRUE, map |-> m] : m \in ToolMaps}

\* message metadata of the latest user message: no user message, key absent,
\* or the value of enable_web_search
MetadataValues == {"no_message", "absent", "true", "false"}

VARIABLES
    pc,                     \* position of run()
    exit,                   \* the path by which run() left ("none" while running)
    raised,                 \* run() raised an exception out of its generator
    out,                    \* chunks yielded to the caller so far
    max_iterations,         \* AgentConfig.max_iterations
    iteration_count,
    continue_execution,
    turns,                  \* number of thread_manager.run_thread calls
    turn_start,             \* Len(out) when the current response was obtained
    pos,                    \* chunks of the current response consumed
    agent_should_terminate,
    error_detected,
    last_tool_call,
    full_response,
    message_metadata,       \* metadata of the latest user message
    web_search_enabled,     \* local of run()
    agentpress_tools,       \* agent_config['agentpress_tools']
    is_suna_default,        \* agent_config['is_suna_default']
    tool_manager,           \* ToolManager fields; constructed is false before setup_tools
    tools                   \* names registered with thread_manager.add_tool

runVars == <<pc, exit, raised, out, max_iterations, iteration_count, continue_execution,
             turns, turn_start, pos, agent_should_terminate, error_detected,
             last_tool_call, full_response, message_metadata, web_search_enabled,
             agentpress_tools, is_suna_default, tool_manager, tools>>

loopVars == <<iteration_count, continue_execution, turns, turn_start, pos,
              agent_should_terminate, error_detected, last_tool_call, full_response>>

turnVars == <<turn_start, pos, agent_should_terminate, error_detected,
              last_tool_call, full_response>>

configVars == <<max_iterations, message_metadata, agentpress_tools, is_suna_default>>

toolVars == <<web_search_enabled, tool_manager, tools>>

VARIABLES
    up_pc,                  \* position of the upload call
    mode,                   \* "bytes": upload_video_from_bytes, "file": upload_video_from_file
    registered,             \* a session_id was given: the session is in self.sessions
    cancelled,              \* the session id is in self._cancelled_uploads
    cancel_result,          \* what the last cancel_upload call returned ("none" before any)
    total_bytes,            \* UploadSession fields
    bytes_uploaded,
    status,
    video_id,
    error,
    retries,
    start,                  \* locals of the chunk loop
    chunk_len,
    retry,
    requests,               \* the chunk requests sent to the provider, in order
    clock,                  \* seconds slept so far
    result,                 \* what the upload call returned or raised
    progress_calls          \* the calls of on_progress, in order, with their arguments

sessionVars == <<total_bytes, bytes_uploaded, status, video_id, error, retries>>

upVars == <<up_pc, mode, registered, cancelled, cancel_result, sessionVars,
            start, chunk_len, retry, requests, clock, result, progress_calls>>

VARIABLES
    fm_now,                 \* datetime.utcnow(), in hours
    refs,                   \* table video_file_references, by reference id
    disk,                   \* the paths at which a file exists
    next_ref,               \* reference ids handed out so far (ids are fresh uuids)
    upload_references,      \* table upload_references: its rows, oldest first
    uploads,                \* table youtube_uploads, by upload id
    next_upload,            \* upload ids handed out so far
    jobs,                   \* the background upload job of each upload id
    last                    \* the most recent call: its arguments, result and effects

fileVars == <<fm_now, refs, disk, next_ref>>

svcVars == <<fileVars, upload_references, uploads, next_upload, jobs, last>>

VARIABLES
    ch_now,                 \* datetime.utcnow() of the channel manager, in seconds
    youtube_channels,       \* table youtube_channels: the token of each (user, channel) row
    _channels_cache,        \* YouTubeMCPChannels._channels_cache of one manager instance
    ch_last                 \* the most recent call on the manager: arguments, result, effects

chanVars == <<ch_now, youtube_channels, _channels_cache, ch_last>>

VARIABLES
    account_id,             \* MCPManager.account_id: the account the run acts for
    configured_mcps,        \* agent_config['configured_mcps']
    custom_mcps,            \* agent_config['custom_mcps']
    mcp_configs,            \* MCPToolWrapper.mcp_configs: the merged list once registered
    mcp_last                \* the most recent MCP call: arguments, result and effects

mcpVars == <<account_id, configured_mcps, custom_mcps, mcp_configs, mcp_last>>

VARIABLES
    channel_table,          \* the channels of one user, by id: public fields and token
    view_last               \* the most recent call on them: arguments and result

viewVars == <<channel_table, view_last>>

VARIABLES
    image_contexts,         \* the image_context messages of the thread, oldest first
    image_added,            \* how many image_context messages the thread has been given
    included,               \* per message id: in how many temporary messages it was
    temp_turns,             \* the calls of build_temporary_message so far
    temp_last               \* the most recent call: what it read and what it returned

msgVars == <<image_contexts, image_added, included, temp_turns, temp_last>>

VARIABLES
    session_store,          \* the value Redis holds under the key of one session
    updaters,               \* the update_session calls: position, arguments, copy read
    removed_during          \* the calls that were in progress when the key was removed

sessVars == <<session_store, updaters, removed_during>>

\* the variables of the components added last
auxVars == <<viewVars, msgVars, sessVars>>

\* the variables the channel views and the refresh do not touch
otherThanViews == <<runVars, upVars, svcVars, chanVars, mcpVars, msgVars, sessVars>>

\* the variables the temporary message does not touch
otherThanMessages == <<runVars, upVars, svcVars, chanVars, mcpVars, viewVars, sessVars>>

\* the variables the session manager does not touch
otherThanSessions == <<runVars, upVars, svcVars, chanVars, mcpVars, viewVars, msgVars>>

\* the variables AgentRunner.run does not touch
otherThanRun == <<upVars, svcVars, chanVars, mcpVars, auxVars>>

\* the variables the upload engine does not touch
otherThanUpload == <<runVars, svcVars, chanVars, mcpVars, auxVars>>

\* the variables the file manager and the upload routes do not touch
otherThanService == <<runVars, upVars, chanVars, mcpVars, auxVars>>

\* the variables the channel manager does not touch
otherThanChannels == <<runVars, upVars, svcVars, mcpVars, auxVars>>

\* the variables MCP registration and the MCP tool bridge do not touch
otherThanMcp == <<runVars, upVars, svcVars, chanVars, auxVars>>

vars == <<runVars, upVars, svcVars, chanVars, mcpVars, auxVars>>

(***************************************************************************)
(* File references and upload records (file_manager.py, api/youtube/       *)
(* upload.py): the values of the tables                                    *)
(***************************************************************************)
\* most file references created
MaxRefs == 1
\* most upload records created
MaxUploads == 1
\* most advances of the clock, each of the lifetime of a reference
MaxTicks == 2
\* call frames left to a request before the interpreter raises RecursionError
MaxDepth == 5

FILE_EXPIRY_HOURS == 24

Users == {"A", "B"}
RefIds == 1..MaxRefs
UploadIds == 1..MaxUploads

NoPath == [dir |-> "none", owner |-> "", name |-> 0]

\* file_manager.py 113-115: storage_path / user_id / (reference_id + extension)
StoredPath(user_id, reference_id) == [dir |-> "storage", owner |-> user_id, name |-> reference_id]

\* files of the callers, outside the storage directory
CallerPaths == {[dir |-> "caller", owner |-> "", name |-> 1]}

NoRef == [present |-> FALSE, user_id |-> "", is_temporary |-> FALSE, expires_at |-> 0,
          file_path |-> NoPath]

NoUploadRecord == [present |-> FALSE, user_id |-> "", upload_status |-> "", upload_progress |-> 0,
                   error_message |-> "", video_id |-> ""]

NoCall == [op |-> "none", user |-> "", id |-> 0, ret |-> "", owner |-> "", code |-> 0,
           case |-> "", db_deletes |-> 0, file_removes |-> 0, before |-> NoRef,
           scheduled |-> FALSE, records |-> 0, provider_calls |-> 0,
           transfer_requests |-> 0, failure |-> ""]

\* upload.py 77: the id of an upload_references row is a uuid of its own,
\* equal to no id of a file reference
UploadReferenceId(n) == MaxRefs + n

\* most runs of the upload actor for one upload record
MaxAttempts == 1

NoJob == [state |-> "none", kind |-> "none", reported |-> 0, attempts |-> 0]

\* no request has been served (the state of the service in the other
\* specifications)
ServiceIdle ==
    /\ fm_now = 0
    /\ refs = [r \in RefIds |-> NoRef]
    /\ disk = CallerPaths
    /\ next_ref = 0
    /\ upload_references = <<>>
    /\ uploads = [u \in UploadIds |-> NoUploadRecord]
    /\ next_upload = 0
    /\ jobs = [u \in UploadIds |-> NoJob]
    /\ last = NoCall

(***************************************************************************)
(* YouTubeMCPChannels (youtube/channels.py) and the expiry rule of the     *)
(* OAuth handler (youtube/oauth.py): one manager instance over the table   *)
(* youtube_channels                                                        *)
(***************************************************************************)
\* most seconds the clock of the channel manager advances
MaxClock == 1

\* oauth.py 289: buffer_minutes: int = 5
BUFFER_MINUTES == 5

\* oauth.py 265: token_data.get("expires_in", 3600)
EXPIRES_IN == 3600

ChannelIds == {"c1", "c2"}

\* no row of the table, no entry of a map
NoChannel == [access_token |-> "", refresh_token |-> "", expiry |-> 0]

\* the users whose requests the manager instance serves
ChannelUsers == {"A"}

\* YouTubeToken (oauth.py 51-57) of a row saved about an hour ago: the access
\* token, the refresh token ("" when the provider gave none, 212) and the
\* expiry in seconds, one second after BUFFER_MINUTES from the start of the
\* clock
StoredTokens ==
    [access_token : {"old"}, refresh_token : {"", "r"},
     expiry : {BUFFER_MINUTES * 60 + 1}]

\* the token the provider issues at `now` (oauth.py 263-279); the refresh
\* token is the one presented unless the provider returns another (269)
IssuedToken(now, refresh_token) ==
    [access_token |-> "new", refresh_token |-> refresh_token, expiry |-> now + EXPIRES_IN]

NoChannels == [c \in ChannelIds |-> NoChannel]

NotCached == [cached |-> FALSE, channels |-> NoChannels]

\* oauth.py 289-301
is_token_expired_Strict(now, expiry, buffer_minutes) ==
    now + buffer_minutes * 60 > expiry

is_token_expired(now, expiry, buffer_minutes) ==
    now + buffer_minutes * 60 >= expiry

\* the store and the cache as a call finds them, with the requests the call
\* has sent to the store and how many of them the store refused
ChanState ==
    [store |-> youtube_channels, cache |-> _channels_cache, reads |-> 0, writes |-> 0,
     refused |-> 0]

\* channels.py 113-168; upsert_ok: the upsert at 153-156 did not raise
save_channel_NoCache(st, user_id, channel_id, token, upsert_ok) ==
    IF upsert_ok
    THEN [ret |-> "ok",
          st |-> [st EXCEPT !.store[<<user_id, channel_id>>] = token,
                            !.writes = @ + 1]]
    ELSE [ret |-> "raise", st |-> [st EXCEPT !.writes = @ + 1, !.refused = @ + 1]]

save_channel(st, user_id, channel_id, token, upsert_ok) ==
    IF upsert_ok
    THEN [ret |-> "ok",
          st |-> [st EXCEPT !.store[<<user_id, channel_id>>] = token,
                            !.writes = @ + 1,
                            !.cache[user_id] =
                                [cached |-> TRUE,
                                 channels |-> [(IF @.cached THEN @.channels ELSE NoChannels)
                                                  EXCEPT ![channel_id] = token]]]]
    ELSE [ret |-> "raise", st |-> [st EXCEPT !.writes = @ + 1, !.refused = @ + 1]]

\* channels.py 170-231; select_ok: the select at 191-193 did not raise
get_user_channels(st, user_id, use_cache, select_ok) ==
    IF use_cache /\ st.cache[user_id].cached
    THEN [ret |-> st.cache[user_id].channels, st |-> st]
    ELSE IF select_ok
    THEN LET channels == [c \in ChannelIds |-> st.store[<<user_id, c>>]]
         IN  [ret |-> channels,
              st |-> [st EXCEPT !.cache[user_id] = [cached |-> TRUE, channels |-> channels],
                                !.reads = @ + 1]]
    ELSE [ret |-> NoChannels, st |-> [st EXCEPT !.reads = @ + 1, !.refused = @ + 1]]

\* channels.py 233-259 (channel ids are never empty)
get_channel_by_id(st, channel_id, user_id, select_ok) ==
    LET r == get_user_channels(st, user_id, TRUE, select_ok)
    IN  IF r.ret[channel_id] = NoChannel
        THEN [ret |-> "raise", channel |-> NoChannel, st |-> r.st]
        ELSE [ret |-> "ok", channel |-> r.ret[channel_id], st |-> r.st]

\* channels.py 261-307.  The channel is the object the cache holds, so the
\* assignment at 298 changes the cache before save_channel runs.
\* refresh_ok: the provider answered the refresh request with a token
get_valid_access_token(st, now, channel_id, user_id, select_ok, refresh_ok, upsert_ok) ==
    LET g == get_channel_by_id(st, channel_id, user_id, select_ok)
        examined == g.channel.expiry
        failed(s, checked, calls) ==
            [ret |-> "raise", access_token |-> "", st |-> s, checked |-> checked,
             expiry |-> IF checked THEN examined ELSE 0,
             expired |-> checked, provider_calls |-> calls]
    IN  IF g.ret = "raise" \/ g.channel.access_token = ""
        THEN failed(g.st, FALSE, 0)
        ELSE IF is_token_expired(now, g.channel.expiry, BUFFER_MINUTES)
        THEN IF g.channel.refresh_token = ""
             THEN failed(g.st, TRUE, 0)
             ELSE IF ~refresh_ok
             THEN failed(g.st, TRUE, 1)
             ELSE LET new_token == IssuedToken(now, g.channel.refresh_token)
                      assigned == [g.st EXCEPT
                                     !.cache[user_id].channels[channel_id] = new_token]
                      s == save_channel(assigned, user_id, channel_id, new_token, upsert_ok)
                  IN  IF s.ret = "ok"
                      THEN [ret |-> "ok", access_token |-> new_token.access_token,
                            st |-> s.st, checked |-> TRUE, expiry |-> examined,
                            expired |-> TRUE,
                            provider_calls |-> 1]
                      ELSE failed(s.st, TRUE, 1)
        ELSE [ret |-> "ok", access_token |-> g.channel.access_token, st |-> g.st,
              checked |-> TRUE, expiry |-> examined, expired |-> FALSE,
              provider_calls |-> 0]

\* channels.py 309-342; delete_ok: the delete at 329-331 did not raise
delete_channel(st, channel_id, user_id, delete_ok) ==
    IF delete_ok
    THEN [ret |-> "ok",
          st |-> [st EXCEPT !.store[<<user_id, channel_id>>] = NoChannel,
                            !.writes = @ + 1,
                            !.cache[user_id].channels[channel_id] = NoChannel]]
    ELSE [ret |-> "raise", st |-> [st EXCEPT !.writes = @ + 1, !.refused = @ + 1]]

NoChannelCall ==
    [op |-> "none", user |-> "", id |-> "", use_cache |-> FALSE, ret |-> "",
     channels |-> NoChannels, access_token |-> "",
     checked |-> FALSE, expiry |-> 0, expired |-> FALSE, code |-> 0,
     store_reads |-> 0, store_writes |-> 0, store_refused |-> 0, provider_calls |-> 0,
     offered |-> {},
     prev |-> [op |-> "none", id |-> "", ret |-> ""]]

\* no call has been made on a channel manager (the state of the manager in
\* the other specifications)
ChannelsIdle ==
    /\ ch_now = 0
    /\ youtube_channels = [k \in Users \X ChannelIds |-> NoChannel]
    /\ _channels_cache = [u \in Users |-> NotCached]
    /\ ch_last = NoChannelCall

(***************************************************************************)
(* MCP registration (agent/run.py: MCPManager.register_mcp_tools and the   *)
(* channel ids of AgentRunner.setup_tools) and the MCP tool bridge         *)
(* (agent/tools/utils/mcp_tool_executor.py).  Strings that the code takes  *)
(* apart are sequences of pieces: a name is the sequence of its            *)
(* characters, a qualified name starts with its prefix as one piece.       *)
(***************************************************************************)
\* the most custom MCP entries an agent configuration holds
MaxMcps == 2

\* a key the dictionary does not have
Absent == "<absent>"

\* str.lower() on one character
lower(c) ==
    CASE c = "G" -> "g"
      [] c = "M" -> "m"
      [] c = "S" -> "s"
      [] c = "T" -> "t"
      [] c = "Y" -> "y"
      [] OTHER -> c

\* name.replace(' ', '_').lower() (run.py 167, 182)
slug(name) == [i \in DOMAIN name |-> lower(IF name[i] = " " THEN "_" ELSE name[i])]

NoConfig == [present |-> FALSE, user_id |-> Absent, jwt_token |-> Absent]

EmptyConfig == [NoConfig EXCEPT !.present = TRUE]

McpEntry(name, qualifiedName, customType, type, platform, config) ==
    [name |-> name, qualifiedName |-> qualifiedName, customType |-> customType,
     type |-> type, platform |-> platform, config |-> config]

\* the custom MCP entries an agent configuration may carry; a YouTube channel
\* connected in the agent editor is stored with its qualified name, custom
\* type and platform (test_youtube_integration.py 68-79)
CustomMcpMenu ==
    { McpEntry(<<"M", "y", " ", "T", "o", "o", "l">>, <<>>, Absent, "sse", Absent,
               EmptyConfig),
      McpEntry(<<"G", "m", "a", "i", "l", " ", "S", "e", "a", "r", "c", "h">>, <<>>,
               "composio", Absent, Absent, NoConfig),
      McpEntry(<<"G", "m">>, <<"composio.", "g", "m">>, "composio", Absent, Absent,
               EmptyConfig),
      McpEntry(<<"Y", "T">>, <<"social.youtube.", "UC1">>, "social-media", Absent,
               "youtube", [EmptyConfig EXCEPT !.user_id = "B"]),
      McpEntry(<<"Y", "T", " ", "2">>, <<"social.youtube.", "UC2">>, "social-media",
               Absent, "youtube", NoConfig),
      McpEntry(<<"Y", "T", " ", "0">>, <<"social.youtube.">>, "social-media", Absent,
               "youtube", EmptyConfig),
      McpEntry(<<"T", "T">>, <<"social.tiktok.", "UC3">>, Absent, "social-media",
               "youtube", EmptyConfig),
      McpEntry(<<"M", "y", " ", "T", "o", "o", "l">>, <<>>, "http", Absent, Absent,
               NoConfig) }

\* a configured (registry) MCP declaration; these are merged as they are
ConfiguredMcpMenu ==
    { McpEntry(<<"e", "x", "a">>, <<"e", "x", "a">>, Absent, Absent, Absent, EmptyConfig) }

SeqsUpTo(S, n) == UNION { [1..k -> S] : k \in 0..n }

\* custom_mcp.get('customType', custom_mcp.get('type', 'sse')) (run.py 155)
custom_type_of(custom_mcp) ==
    IF custom_mcp.customType # Absent THEN custom_mcp.customType
    ELSE IF custom_mcp.type # Absent THEN custom_mcp.type
    ELSE "sse"

\* run.py 157-162: the entry of the agent configuration after the stamp
stamp_user_id_KeepSupplied(custom_mcp, acting) ==
    IF custom_type_of(custom_mcp) = "social-media"
    THEN [custom_mcp EXCEPT !.config =
             [@ EXCEPT !.present = TRUE,
                       !.user_id = IF @ = Absent THEN acting ELSE @]]
    ELSE custom_mcp

stamp_user_id(custom_mcp, acting) ==
    IF custom_type_of(custom_mcp) = "social-media"
    THEN [custom_mcp EXCEPT !.config = [@ EXCEPT !.present = TRUE, !.user_id = acting]]
    ELSE custom_mcp

\* run.py 164-179 (composio) and 181-190 (every other type): the entry of
\* the merged list; the keys type and platform are not carried over
mcp_config_of(custom_mcp) ==
    LET custom_type == custom_type_of(custom_mcp)
    IN  IF custom_type = "composio"
        THEN McpEntry(custom_mcp.name,
                      IF custom_mcp.qualifiedName # <<>>
                      THEN custom_mcp.qualifiedName
                      ELSE <<"composio.">> \o slug(custom_mcp.name),
                      custom_type, Absent, Absent,
                      IF custom_mcp.config.present THEN custom_mcp.config ELSE EmptyConfig)
        ELSE McpEntry(custom_mcp.name,
                      <<"custom_", custom_type, "_">> \o slug(custom_mcp.name),
                      custom_type, Absent, Absent, custom_mcp.config)

\* custom_mcp['config'] of an entry without the key (run.py 184)
raises_KeyError(custom_mcp) ==
    /\ custom_type_of(custom_mcp) # "composio"
    /\ ~custom_mcp.config.present

\* run.py 147-212.  init_ok: initialize_and_register_tools did not raise.
\* The entries of the agent configuration are stamped in place, up to the
\* entry at which the loop raises.
register_mcp_tools(configured, customs, acting, init_ok) ==
    LET stamped == [i \in DOMAIN customs |-> stamp_user_id(customs[i], acting)]
        failing == {i \in DOMAIN customs : raises_KeyError(stamped[i])}
        all_mcps == configured \o [i \in DOMAIN customs |-> mcp_config_of(stamped[i])]
    IN  IF failing # {}
        THEN LET k == CHOOSE i \in failing : \A j \in failing : i <= j
             IN  [ret |-> "raise", all_mcps |-> <<>>,
                  custom_mcps |-> [i \in DOMAIN customs |->
                                      IF i < k THEN stamped[i] ELSE customs[i]]]
        ELSE [ret |-> IF all_mcps = <<>> \/ ~init_ok THEN "none" ELSE "wrapper",
              all_mcps |-> all_mcps,
              custom_mcps |-> stamped]

\* MCPToolWrapper(mcp_configs=all_mcps, ...) (run.py 195): the wrapper
\* holds the list it was given; no wrapper is kept when there is no entry or
\* its initialization fails
wrapper_mcp_configs(r) == IF r.ret = "wrapper" THEN r.all_mcps ELSE <<>>

\* the ids taken from the entries of a list of MCP declarations: run.py
\* 438-447 over agent_config['custom_mcps'].  str.replace removes every
\* occurrence of the prefix.
youtube_channels_of(mcps) ==
    LET contributes(mcp) ==
            /\ mcp.customType = "social-media"
            /\ mcp.platform = "youtube"
            /\ Len(mcp.qualifiedName) >= 1
            /\ mcp.qualifiedName[1] = "social.youtube."
            /\ SelectSeq(mcp.qualifiedName, LAMBDA t : t # "social.youtube.") # <<>>
        channel_id(mcp) == SelectSeq(mcp.qualifiedName, LAMBDA t : t # "social.youtube.")
        kept == SelectSeq(mcps, contributes)
    IN  [i \in DOMAIN kept |-> channel_id(kept[i])]

\* mcp_tool_executor.py 107-116: the same collection over
\* tool_wrapper.mcp_configs
bridge_channel_ids(configs) == youtube_channels_of(configs)

\* mcp_tool_executor.py 92-105: the user id of the first social-media
\* YouTube entry of tool_wrapper.mcp_configs, else the one of the tool's own
\* configuration
bridge_user_id(configs, custom_config) ==
    LET matching == SelectSeq(configs, LAMBDA c : c.customType = "social-media"
                                                  /\ c.platform = "youtube")
        first == IF matching = <<>> THEN Absent ELSE matching[1].config.user_id
    IN  IF first # Absent THEN first ELSE custom_config.user_id

\* youtube_tool.py 54, 96, 179-187, 230: the parameters of each method of
\* YouTubeTool, and those without a default
Parameters(method) ==
    CASE method = "youtube_upload_video" ->
             {"channel_id", "video_path", "title", "description", "tags", "privacy"}
      [] method = "youtube_channel_stats" -> {"channel_id"}
      [] OTHER -> {}

Required(method) ==
    CASE method = "youtube_upload_video" -> {"channel_id", "video_path", "title"}
      [] method = "youtube_channel_stats" -> {"channel_id"}
      [] OTHER -> {}

YouTubeMethods ==
    {"youtube_authenticate", "youtube_channels", "youtube_upload_video",
     "youtube_channel_stats"}

\* mcp_tool_executor.py 123-139: the keyword arguments the bridge passes
Keywords(tool_name) ==
    CASE tool_name = "youtube_upload_video" ->
             {"title", "description", "file_path", "channel_id", "tags", "privacy"}
      [] tool_name = "youtube_channel_stats" -> {"channel_ids"}
      [] OTHER -> {}

\* a call binds when every keyword names a parameter and no parameter
\* without a default is left out; otherwise the call raises TypeError
binds(method, keywords) ==
    /\ keywords \subseteq Parameters(method)
    /\ Required(method) \subseteq keywords

\* what a handler gives back: a result object, or an exception
Returned(success, handler) ==
    [ret |-> "result", success |-> success, handler |-> handler, method |-> "none",
     user_id |-> Absent, channel_ids |-> <<>>]

Raised(handler) == [Returned(FALSE, handler) EXCEPT !.ret = "raise"]

\* the provider's part of a call: it answers, answers with isError, or the
\* transport raises (a timeout of asyncio.timeout(30), a connection error)
Outcomes == {"ok", "is_error", "timeout", "transport"}

raises(outcome) == outcome \in {"timeout", "transport"}

\* mcp_tool_executor.py 31-39
_execute_standard_tool(outcome) ==
    IF raises(outcome) THEN Raised("standard")
    ELSE Returned(outcome = "ok", "standard")

\* mcp_tool_executor.py 83-149.  The methods of YouTubeTool catch every
\* exception themselves and return a result (youtube_tool.py 80-82, 136-138,
\* 209-211, 252-254).
_execute_social_media_tool(tool_name, tool_info, outcome, configs) ==
    LET platform == IF tool_info.platform = Absent THEN "youtube" ELSE tool_info.platform
        user_id == bridge_user_id(configs, tool_info)
        channel_ids == bridge_channel_ids(configs)
        scoped(r) == [r EXCEPT !.user_id = user_id, !.channel_ids = channel_ids]
    IN  IF platform # "youtube" THEN Returned(FALSE, "social-media")
        ELSE IF user_id = Absent THEN Returned(FALSE, "social-media")
        ELSE IF tool_name \notin YouTubeMethods
        THEN scoped(Returned(FALSE, "social-media"))
        ELSE IF ~binds(tool_name, Keywords(tool_name))
        THEN scoped(Returned(FALSE, "social-media"))
        ELSE scoped([Returned(outcome = "ok", "social-media") EXCEPT !.method = tool_name])

\* mcp_tool_executor.py 41-81, with the handlers of 150-256: which of them
\* catch what the transport raises, and which read a key the tool's
\* configuration may lack before any try
_execute_custom_tool(tool_name, tool_info, outcome, configs) ==
    LET custom_type == tool_info.custom_type
        guarded(handler) == Returned(outcome = "ok", handler)
        unguarded(handler) == IF raises(outcome) THEN Raised(handler)
                              ELSE Returned(outcome = "ok", handler)
    IN  CASE custom_type = Absent -> Raised("none")
          [] custom_type = "composio" ->
                IF tool_info.profile_id = Absent THEN Returned(FALSE, "composio")
                ELSE guarded("composio")
          [] custom_type = "pipedream" ->
                IF tool_info.external_user_id = Absent THEN Returned(FALSE, "pipedream")
                ELSE guarded("pipedream")
          [] custom_type = "social-media" ->
                _execute_social_media_tool(tool_name, tool_info, outcome, configs)
          [] custom_type = "sse" ->
                IF tool_info.url = Absent THEN Raised("sse") ELSE unguarded("sse")
          [] custom_type = "http" ->
                IF tool_info.url = Absent THEN Raised("http") ELSE guarded("http")
          [] custom_type = "json" -> unguarded("json")
          [] OTHER -> Returned(FALSE, "none")

\* mcp_tool_executor.py 19-29
execute_tool_Uncaught(tool_name, tool_info, outcome, configs) ==
    IF tool_info.in_custom_tools
    THEN _execute_custom_tool(tool_name, tool_info, outcome, configs)
    ELSE _execute_standard_tool(outcome)

execute_tool(tool_name, tool_info, outcome, configs) ==
    LET r == IF tool_info.in_custom_tools
             THEN _execute_custom_tool(tool_name, tool_info, outcome, configs)
             ELSE _execute_standard_tool(outcome)
    IN  IF r.ret = "raise" THEN [r EXCEPT !.ret = "result", !.success = FALSE] ELSE r

ToolInfo(custom_type, platform, user_id, url, profile_id, external_user_id) ==
    [in_custom_tools |-> TRUE, custom_type |-> custom_type, platform |-> platform,
     user_id |-> user_id, url |-> url, profile_id |-> profile_id,
     external_user_id |-> external_user_id]

\* a tool the bridge's table does not hold
NotCustom == [ToolInfo(Absent, Absent, Absent, Absent, Absent, Absent)
                 EXCEPT !.in_custom_tools = FALSE]

\* the entries the bridge's table of custom tools may hold for a tool
ToolInfos ==
    { NotCustom,
      ToolInfo(Absent, Absent, Absent, Absent, Absent, Absent),
      ToolInfo("social-media", "youtube", "A", Absent, Absent, Absent),
      ToolInfo("social-media", Absent, "A", Absent, Absent, Absent),
      ToolInfo("social-media", Absent, Absent, Absent, Absent, Absent),
      ToolInfo("social-media", "tiktok", "A", Absent, Absent, Absent),
      ToolInfo("composio", Absent, Absent, Absent, "p", Absent),
      ToolInfo("composio", Absent, Absent, Absent, Absent, Absent),
      ToolInfo("pipedream", Absent, Absent, Absent, Absent, "x"),
      ToolInfo("pipedream", Absent, Absent, Absent, Absent, Absent),
      ToolInfo("sse", Absent, Absent, "u", Absent, Absent),
      ToolInfo("sse", Absent, Absent, Absent, Absent, Absent),
      ToolInfo("http", Absent, Absent, "u", Absent, Absent),
      ToolInfo("json", Absent, Absent, Absent, Absent, Absent),
      ToolInfo("websocket", Absent, Absent, Absent, Absent, Absent) }

ToolNames == YouTubeMethods \cup {"youtube_delete_video", "web_search"}

NoMcpCall ==
    [op |-> "none", ret |-> "", all_mcps |-> <<>>, channel_ids |-> <<>>,
     tool_name |-> "", tool_info |-> NotCustom, outcome |-> "",
     success |-> FALSE, handler |-> "none", method |-> "none", user_id |-> Absent]

\* no agent configuration has been registered (the state of MCP in the
\* other specifications)
McpIdle ==
    /\ account_id = "A"
    /\ configured_mcps = <<>>
    /\ custom_mcps = <<>>
    /\ mcp_configs = <<>>
    /\ mcp_last = NoMcpCall

(***************************************************************************)
(* Channels as they are shown: the masked view (youtube/channels.py        *)
(* 344-392), the scopes of a token and the capabilities they give          *)
(* (youtube/oauth.py 24-48, 84-107), and the refresh of a token            *)
(* (oauth.py 225-280, channels.py 284-300).  Scope lists are sets: their   *)
(* order plays no part.                                                    *)
(***************************************************************************)
\* oauth.py 24-38, without the common prefix of the scope urls
YOUTUBE_SCOPES ==
    {"youtube.upload", "youtube.readonly", "yt-analytics.readonly",
     "yt-analytics-monetary.readonly", "youtube.channel-memberships.creator",
     "youtube.force-ssl", "youtubepartner"}

\* oauth.py 40-48; a scope the table does not know gives nothing (103)
SCOPE_CAPABILITIES(scope) ==
    CASE scope = "youtube.upload" -> {"upload"}
      [] scope = "youtube.readonly" -> {"management"}
      [] scope = "yt-analytics.readonly" -> {"analytics"}
      [] scope = "yt-analytics-monetary.readonly" -> {"monetization"}
      [] scope = "youtube.force-ssl" -> {"streaming", "management"}
      [] scope = "youtubepartner" -> {"monetization", "management"}
      [] scope = "youtube.channel-memberships.creator" -> {"monetization"}
      [] OTHER -> {}

Capabilities == {"upload", "analytics", "monetization", "streaming", "management"}

\* oauth.py 84-107
get_capabilities_from_scopes(scopes) ==
    [c \in Capabilities |-> \E scope \in scopes : c \in SCOPE_CAPABILITIES(scope)]

\* the empty dictionary mask_channel starts from (channels.py 355)
NoCapabilities == [c \in {} |-> FALSE]

YouTubeToken(access_token, refresh_token, expiry, scopes) ==
    [access_token |-> access_token, refresh_token |-> refresh_token,
     expiry |-> expiry, scopes |-> scopes]

\* MCPChannel (channels.py 18-37); the token is a required field
MCPChannel(id, name, subscriber_count, token) ==
    [present |-> TRUE, id |-> id, name |-> name, custom_url |-> "", thumbnail_url |-> "",
     subscriber_count |-> subscriber_count, view_count |-> 0, video_count |-> 0,
     token |-> token]

NoRow == [MCPChannel("", "", 0, YouTubeToken("", "", 0, {})) EXCEPT !.present = FALSE]

\* the view with the access token left in
mask_channel_WithToken(channel) ==
    [id |-> channel.id, name |-> channel.name, custom_url |-> channel.custom_url,
     thumbnail_url |-> channel.thumbnail_url,
     subscriber_count |-> channel.subscriber_count, view_count |-> channel.view_count,
     video_count |-> channel.video_count,
     has_token |-> channel.token.access_token,
     capabilities |-> IF channel.token.scopes # {}
                      THEN get_capabilities_from_scopes(channel.token.scopes)
                      ELSE NoCapabilities]

\* channels.py 344-371; a YouTubeToken object is always true
mask_channel(channel) ==
    [id |-> channel.id, name |-> channel.name, custom_url |-> channel.custom_url,
     thumbnail_url |-> channel.thumbnail_url,
     subscriber_count |-> channel.subscriber_count, view_count |-> channel.view_count,
     video_count |-> channel.video_count,
     has_token |-> TRUE,
     capabilities |-> IF channel.token.scopes # {}
                      THEN get_capabilities_from_scopes(channel.token.scopes)
                      ELSE NoCapabilities]

\* channels.py 373-392 over the channels get_user_channels returns
get_channels_list(channels) ==
    { mask_channel(channels[id]) : id \in {i \in DOMAIN channels : channels[i].present} }

\* what the provider answers to a refresh request (oauth.py 262-270):
\* whether it names a refresh token, and the scope string if it carries one
RefreshResponse(refresh_token, has_scope, scope) ==
    [access_token |-> "a3", refresh_token |-> refresh_token,
     has_scope |-> has_scope, scope |-> scope]

\* oauth.py 262-280; expiry: utcnow() + expires_in
refresh_access_token(refresh_token, token_data, expiry) ==
    YouTubeToken(token_data.access_token,
                 IF token_data.refresh_token # "" THEN token_data.refresh_token
                 ELSE refresh_token,
                 expiry,
                 IF token_data.has_scope /\ token_data.scope # {}
                 THEN token_data.scope
                 ELSE YOUTUBE_SCOPES)

\* channels.py 293-299: the channel with the token the refresh returned,
\* which save_channel stores with its scopes (146)
refreshed_channel(channel, token_data, expiry) ==
    [channel EXCEPT !.token = refresh_access_token(channel.token.refresh_token,
                                                   token_data, expiry)]

ViewIds == {"c1", "c2"}

\* the channels a user may have connected: the same channel with tokens that
\* differ in their secrets only, and with different grants
ChannelMenu ==
    { MCPChannel("c", "n1", 5, YouTubeToken("a1", "r1", 100, {"youtube.upload"})),
      MCPChannel("c", "n1", 5, YouTubeToken("a2", "", 4000, {"youtube.upload"})),
      MCPChannel("c", "n1", 5, YouTubeToken("a1", "r1", 100, YOUTUBE_SCOPES)),
      MCPChannel("c", "n1", 5, YouTubeToken("a1", "r1", 100, {})),
      MCPChannel("c", "n2", 0,
                 YouTubeToken("a2", "r1", 4000, {"youtube.upload", "youtube.readonly"})) }

RefreshResponses ==
    { RefreshResponse("", FALSE, {}),
      RefreshResponse("r2", FALSE, {}),
      RefreshResponse("", TRUE, {"youtube.upload"}),
      RefreshResponse("", TRUE, {"youtube.readonly", "youtube.force-ssl"}) }

NoViewCall ==
    [op |-> "none", id |-> "", views |-> {}, before |-> NoRow,
     token_data |-> RefreshResponse("", FALSE, {})]

\* no table of channels and no call on it (the state of the views in the
\* other specifications)
ViewIdle ==
    /\ channel_table = <<>>
    /\ view_last = [op |-> "none"]

(***************************************************************************)
(* MessageManager.build_temporary_message (run.py 315-383)                 *)
(***************************************************************************)
\* most image_context messages a thread is given
MaxImages == 2

\* what the content of an image_context message can be: an image with its
\* base64 data and mime type, a JSON object lacking one of them, or text
\* json.loads rejects
ContentKinds == {"image", "no_image", "malformed"}

ImageContext(message_id, kind) == [message_id |-> message_id, kind |-> kind]

\* the select of run.py 357: the image_context message created last, if any
latest_image_context(thread) ==
    IF thread = <<>> THEN <<>> ELSE <<thread[Len(thread)]>>

\* run.py 360-362: the content is parsed; json.loads raises on malformed text
parse_raises(message) == message.kind = "malformed"

\* run.py 365: both the base64 data and the mime type are there
has_image(message) == message.kind = "image"

\* run.py 377: the delete of the message read, which the store may refuse
delete_message(thread, message_id) ==
    SelectSeq(thread, LAMBDA m : m.message_id # message_id)

\* the message ids build_temporary_message puts in the message it returns.
\* The parts are appended before the delete (365-375), so they are returned
\* whether or not the delete goes through (378-383)
temporary_ids(thread) ==
    LET found == latest_image_context(thread)
    IN  IF found = <<>> THEN {}
        ELSE IF parse_raises(found[1]) THEN {}
        ELSE IF has_image(found[1]) THEN {found[1].message_id}
        ELSE {}

\* the thread after the call: the message read is deleted, emitted or not,
\* unless parsing raised before the delete or the delete itself raised, both
\* caught and logged at 378-379
thread_after(thread, delete_ok) ==
    LET found == latest_image_context(thread)
    IN  IF found = <<>> THEN thread
        ELSE IF parse_raises(found[1]) THEN thread
        ELSE IF delete_ok THEN delete_message(thread, found[1].message_id)
        ELSE thread

NoTempCall == [op |-> "none", ids |-> {}, delete_ok |-> TRUE, read |-> <<>>]

\* the thread has no image_context message and no turn has run
MessagesIdle ==
    /\ image_contexts = <<>>
    /\ image_added = 0
    /\ included = [id \in 1..MaxImages |-> 0]
    /\ temp_turns = 0
    /\ temp_last = NoTempCall

(***************************************************************************)
(* SessionManager (utils/session_manager.py) over one key of Redis         *)
(***************************************************************************)
\* the fields of the session the callers update, and their values
SessionFields == {"thread_id", "project_id"}
FieldValues == {"old", "new"}

\* the update_session calls that may overlap
Updaters == {"u1", "u2"}

NoSession == [present |-> FALSE, data |-> [f \in SessionFields |-> ""]]

\* create_session 36-53: the session as stored
StoredSession(data) == [present |-> TRUE, data |-> data]

\* get_session 66-79: the value under the key, None when there is none
get_session(stored) == stored

\* update_session 98: session_data.update(updates) on the copy read
updated(data, updates) ==
    [f \in SessionFields |-> IF updates[f].set THEN updates[f].value ELSE data[f]]

NoUpdates == [f \in SessionFields |-> [set |-> FALSE, value |-> ""]]

\* updates that set one field
OneFieldUpdates ==
    {[NoUpdates EXCEPT ![f] = [set |-> TRUE, value |-> v]] :
        f \in SessionFields, v \in FieldValues}

IdleUpdater == [pc |-> "idle", updates |-> NoUpdates, session_data |-> NoSession.data,
                ret |-> "none"]

\* no session and no call of the session manager (its state in the other
\* specifications)
SessionsIdle ==
    /\ session_store = [present |-> FALSE]
    /\ updaters = <<>>
    /\ removed_during = {}

AuxIdle ==
    /\ ViewIdle
    /\ MessagesIdle
    /\ SessionsIdle

(***************************************************************************)
(* ToolManager                                                             *)
(***************************************************************************)
\* ToolManager.__init__ (run.py 60-68)
ToolManagerInit == [constructed |-> TRUE, web_search_enabled |-> TRUE]

NoToolManager == [constructed |-> FALSE, web_search_enabled |-> TRUE]

\* ToolManager.register_all_tools (run.py 70-87); the account id is resolved
\* (setup succeeded), so the YouTube tool is registered
register_all_tools(tm) ==
    {"expand_message", "message", "sb_shell", "sb_files", "sb_browser", "sb_deploy",
     "sb_expose", "sb_vision", "sb_image_edit", "task_list", "youtube"}
    \cup (IF tm.web_search_enabled THEN {"web_search"} ELSE {})

\* safe_tool_check (run.py 109-118) on a map of enabled flags
safe_tool_check(enabled_tools, tool_name) ==
    IF tool_name \in DOMAIN enabled_tools THEN enabled_tools[tool_name] ELSE FALSE

\* ToolManager.register_custom_tools (run.py 104-138)
register_custom_tools(tm, enabled_tools) ==
    {"expand_message", "message", "task_list", "youtube"}
    \cup (IF safe_tool_check(enabled_tools, "sb_shell_tool") THEN {"sb_shell"} ELSE {})
    \cup (IF safe_tool_check(enabled_tools, "web_search_tool") /\ tm.web_search_enabled
          THEN {"web_search"} ELSE {})

\* AgentRunner.setup_tools (run.py 467-484): which map, if any, selects the tools
\* (present is false for enabled_tools = None)
enabled_tools_of(raw_tools, suna_default) ==
    IF ~raw_tools.present THEN raw_tools
    ELSE IF suna_default /\ DOMAIN raw_tools.map = {} THEN [present |-> FALSE, map |-> <<>>]
    ELSE raw_tools


(***************************************************************************)
(* Streaming upload engine (upload_stream.py)                              *)
(***************************************************************************)
MiB == 1024 * 1024
CHUNK_SIZE == 256 * MiB
MAX_RETRIES == 3
RETRY_DELAY == 5

\* largest source, in whole chunks
MaxUploadChunks == 3

\* sizes of the source: empty, one byte, around one chunk, whole chunks, 600 MiB
TotalSizes ==
    {0, 1, CHUNK_SIZE - 1, CHUNK_SIZE + 1, 600 * MiB}
    \cup {k * CHUNK_SIZE : k \in 1..MaxUploadChunks}

\* ids the provider may give the new video
VideoIds == {"v1", "v2"}

Min(a, b) == IF a < b THEN a ELSE b

NoResult == [kind |-> "none", video |-> None, retries |-> 0]

\* no upload is running (the state of the engine in the other specifications)
UploadIdle ==
    /\ up_pc = "idle"
    /\ mode = "bytes"
    /\ registered = FALSE
    /\ cancelled = FALSE
    /\ cancel_result = "none"
    /\ total_bytes = 0
    /\ bytes_uploaded = 0
    /\ status = "none"
    /\ video_id = None
    /\ error = None
    /\ retries = 0
    /\ start = 0
    /\ chunk_len = 0
    /\ retry = 0
    /\ requests = <<>>
    /\ clock = 0
    /\ result = NoResult
    /\ progress_calls = <<>>

(***************************************************************************)
(* AgentRunner.run                                                         *)
(***************************************************************************)
InitLoopVars ==
    /\ iteration_count = 0
    /\ continue_execution = TRUE
    /\ turns = 0
    /\ turn_start = 0
    /\ pos = 0
    /\ agent_should_terminate = FALSE
    /\ error_detected = FALSE
    /\ last_tool_call = None
    /\ full_response = <<>>

InitRunCommon ==
    /\ pc = "setup"
    /\ exit = "none"
    /\ raised = FALSE
    /\ out = <<>>
    /\ InitLoopVars
    /\ web_search_enabled = TRUE
    /\ tool_manager = NoToolManager
    /\ tools = {}

\* a run of any iteration budget; the tool configuration, which the loop never
\* reads, is the default one
Init ==
    /\ InitRunCommon
    /\ UploadIdle
    /\ ServiceIdle
    /\ ChannelsIdle
    /\ McpIdle
    /\ AuxIdle
    /\ max_iterations \in 0..MaxIter
    /\ message_metadata = "absent"
    /\ agentpress_tools = [present |-> FALSE, map |-> <<>>]
    /\ is_suna_default = FALSE

\* run() raises: the generator ends with an exception (509, 546, 554, and the
\* unguarded awaits at 520, 579, 589)
Raise(path) ==
    /\ pc' = "done"
    /\ exit' = path
    /\ raised' = TRUE
    /\ UNCHANGED out

\* run.py 505-509 with setup() 391-433
Setup ==
    /\ pc = "setup"
    /\ \E outcome \in {"ok", "no_account", "no_project"} :
          IF outcome = "ok"
          THEN /\ pc' = "preference"
               /\ UNCHANGED <<exit, raised, out>>
          ELSE Raise("setup_failed")
    /\ UNCHANGED <<loopVars, configVars, toolVars>>
    /\ UNCHANGED otherThanRun

\* run.py 518-538: message_metadata.get('enable_web_search', True)
ReadPreference ==
    /\ pc = "preference"
    /\ \E query \in {"ok", "raise"} :
          IF query = "ok"
          THEN /\ pc' = "setup_tools"
               /\ web_search_enabled' = (message_metadata # "false")
               /\ UNCHANGED <<exit, raised, out>>
          ELSE /\ Raise("preference_failed")
               /\ UNCHANGED web_search_enabled
    /\ UNCHANGED <<loopVars, configVars, tool_manager, tools>>
    /\ UNCHANGED otherThanRun

\* run.py 541-546 with setup_tools() 435-484: the ToolManager is constructed,
\* the tools are registered, and then the preference is stored in the manager
SetupTools ==
    /\ pc = "setup_tools"
    /\ \E outcome \in {"ok", "raise"} :
          IF outcome = "ok"
          THEN LET tm == ToolManagerInit
                   enabled_tools == enabled_tools_of(agentpress_tools, is_suna_default)
               IN /\ tools' = IF ~enabled_tools.present
                              THEN register_all_tools(tm)
                              ELSE register_custom_tools(tm, enabled_tools.map)
                  /\ tool_manager' = [tm EXCEPT !.web_search_enabled = web_search_enabled]
                  /\ pc' = "setup_mcp"
                  /\ UNCHANGED <<exit, raised, out>>
          ELSE /\ Raise("tools_failed")
               /\ UNCHANGED <<tool_manager, tools>>
    /\ UNCHANGED <<loopVars, configVars, web_search_enabled>>
    /\ UNCHANGED otherThanRun

\* run.py 548-574: MCP registration, prompt and message manager
SetupMcp ==
    /\ pc = "setup_mcp"
    /\ \E outcome \in {"ok", "raise"} :
          IF outcome = "ok"
          THEN /\ pc' = "loop"
               /\ UNCHANGED <<exit, raised, out>>
          ELSE Raise("mcp_failed")
    /\ UNCHANGED <<loopVars, configVars, toolVars>>
    /\ UNCHANGED otherThanRun

\* the loop condition with the budget test off by one
LoopCondition_Inclusive == continue_execution /\ iteration_count <= max_iterations

\* run.py 576: the condition of the while loop
LoopCondition == continue_execution /\ iteration_count < max_iterations

\* run.py 576, 728: the loop condition is false
LoopExit ==
    /\ pc = "loop"
    /\ ~LoopCondition
    /\ pc' = "done"
    /\ exit' = IF continue_execution THEN "budget" ELSE "terminated"
    /\ UNCHANGED <<raised, out, loopVars, configVars, toolVars>>
    /\ UNCHANGED otherThanRun

\* the billing stop without its break: the turn is executed all the same
BillingStop_NoBreak ==
    /\ pc = "loop"
    /\ continue_execution /\ iteration_count < max_iterations
    /\ iteration_count' = iteration_count + 1
    /\ out' = Append(out, RunStatus("stopped"))
    /\ pc' = "run_thread"
    /\ exit' = "billing"
    /\ UNCHANGED <<raised, continue_execution, turns, turnVars, configVars, toolVars>>
    /\ UNCHANGED otherThanRun

\* run.py 577-587: can_run is false
BillingStop ==
    /\ pc = "loop"
    /\ LoopCondition
    /\ iteration_count' = iteration_count + 1
    /\ out' = Append(out, RunStatus("stopped"))
    /\ pc' = "done"
    /\ exit' = "billing"
    /\ UNCHANGED <<raised, continue_execution, turns, turnVars, configVars, toolVars>>
    /\ UNCHANGED otherThanRun

\* run.py 577-594: can_run is true, the latest message is assistant-authored
AssistantLatestBreak ==
    /\ pc = "loop"
    /\ LoopCondition
    /\ iteration_count' = iteration_count + 1
    /\ continue_execution' = FALSE
    /\ pc' = "done"
    /\ exit' = "assistant_latest"
    /\ UNCHANGED <<raised, out, turns, turnVars, configVars, toolVars>>
    /\ UNCHANGED otherThanRun

\* run.py 579, 589: the billing check or the message query raises
LoopQueryRaise ==
    /\ pc = "loop"
    /\ LoopCondition
    /\ iteration_count' = iteration_count + 1
    /\ Raise("query_failed")
    /\ UNCHANGED <<continue_execution, turns, turnVars, configVars, toolVars>>
    /\ UNCHANGED otherThanRun

\* run.py 577-599: can_run is true, the latest message is not from the assistant
BeginTurn ==
    /\ pc = "loop"
    /\ LoopCondition
    /\ iteration_count' = iteration_count + 1
    /\ pc' = "run_thread"
    /\ UNCHANGED <<exit, raised, out, continue_execution, turns, turnVars, configVars, toolVars>>
    /\ UNCHANGED otherThanRun

\* run.py 600-634, 692-698, 716-723: the thread-execution call and its result
RunThread ==
    /\ pc = "run_thread"
    /\ turns' = turns + 1
    /\ \E response \in {"stream", "error_dict", "not_stream", "raise"} :
          CASE response = "raise" ->
                 /\ out' = Append(out, RunStatus("error"))
                 /\ pc' = "done"
                 /\ exit' = "run_thread_raised"
                 /\ UNCHANGED turnVars
            [] response = "error_dict" ->
                 /\ out' = Append(out, EngineError)
                 /\ pc' = "done"
                 /\ exit' = "engine_error"
                 /\ UNCHANGED turnVars
            [] response = "not_stream" ->
                 /\ last_tool_call' = None
                 /\ agent_should_terminate' = FALSE
                 /\ error_detected' = TRUE
                 /\ full_response' = <<>>
                 /\ pc' = "done"
                 /\ exit' = "not_stream"
                 /\ UNCHANGED <<out, turn_start, pos>>
            [] response = "stream" ->
                 /\ last_tool_call' = None
                 /\ agent_should_terminate' = FALSE
                 /\ error_detected' = FALSE
                 /\ full_response' = <<>>
                 /\ turn_start' = Len(out)
                 /\ pos' = 0
                 /\ pc' = "stream"
                 /\ UNCHANGED <<exit, out>>
    /\ UNCHANGED <<raised, iteration_count, continue_execution, configVars, toolVars>>
    /\ UNCHANGED otherThanRun

\* run.py 638-691: one pass of the body of  async for chunk in response
ConsumeChunk ==
    /\ pc = "stream"
    /\ pos < MaxChunks
    /\ \E c \in Chunks :
          /\ pos' = pos + 1
          /\ out' = Append(out, Forwarded(c))
          /\ IF c.type = "status" /\ c.status = "error"
             THEN /\ error_detected' = TRUE
                  /\ UNCHANGED <<agent_should_terminate, last_tool_call, full_response>>
             ELSE /\ UNCHANGED error_detected
                  /\ agent_should_terminate' =
                        (agent_should_terminate \/ (c.type = "status" /\ c.term))
                  /\ full_response' =
                        IF c.type = "assistant" THEN full_response \o c.text ELSE full_response
                  /\ last_tool_call' =
                        IF c.type = "status" /\ c.term /\ c.tool # "" THEN c.tool
                        ELSE IF c.type = "assistant" /\ xml_tool(c.text) # None
                             THEN xml_tool(c.text)
                        ELSE last_tool_call
    /\ UNCHANGED <<pc, exit, raised, iteration_count, continue_execution, turns, turn_start,
                   configVars, toolVars>>
    /\ UNCHANGED otherThanRun

\* run.py 705-714: the stream raises, or a chunk is not a dictionary
StreamRaise ==
    /\ pc = "stream"
    /\ out' = Append(out, RunStatus("error"))
    /\ pc' = "done"
    /\ exit' = "stream_raised"
    /\ UNCHANGED <<raised, loopVars, configVars, toolVars>>
    /\ UNCHANGED otherThanRun

\* the end of the stream with the termination test placed before the error test
StreamEnd_TerminationFirst ==
    /\ pc = "stream"
    /\ IF agent_should_terminate \/ last_tool_call \in TERMINATING_TOOLS
       THEN /\ pc' = "loop"
            /\ continue_execution' = FALSE
            /\ UNCHANGED exit
       ELSE IF error_detected
       THEN /\ pc' = "done"
            /\ exit' = "error_detected"
            /\ UNCHANGED continue_execution
       ELSE /\ pc' = "loop"
            /\ UNCHANGED <<exit, continue_execution>>
    /\ UNCHANGED <<raised, out, iteration_count, turns, turnVars, configVars, toolVars>>
    /\ UNCHANGED otherThanRun

\* run.py 695-703, 725-726: the stream is exhausted
StreamEnd ==
    /\ pc = "stream"
    /\ IF error_detected
       THEN /\ pc' = "done"
            /\ exit' = "error_detected"
            /\ UNCHANGED continue_execution
       ELSE /\ pc' = "loop"
            /\ continue_execution' =
                  IF agent_should_terminate \/ last_tool_call \in TERMINATING_TOOLS
                  THEN FALSE ELSE continue_execution
            /\ UNCHANGED exit
    /\ UNCHANGED <<raised, out, iteration_count, turns, turnVars, configVars, toolVars>>
    /\ UNCHANGED otherThanRun

Next ==
    \/ Setup
    \/ ReadPreference
    \/ SetupTools
    \/ SetupMcp
    \/ LoopExit
    \/ BillingStop
    \/ AssistantLatestBreak
    \/ LoopQueryRaise
    \/ BeginTurn
    \/ RunThread
    \/ ConsumeChunk
    \/ StreamRaise
    \/ StreamEnd

Spec == Init /\ [][Next]_vars

(***************************************************************************)
(* Tool registration over every agent configuration                        *)
(***************************************************************************)
InitTools ==
    /\ InitRunCommon
    /\ UploadIdle
    /\ ServiceIdle
    /\ ChannelsIdle
    /\ McpIdle
    /\ AuxIdle
    /\ max_iterations = 0
    /\ message_metadata \in MetadataValues
    /\ agentpress_tools \in AgentpressTools
    /\ is_suna_default \in BOOLEAN

NextTools ==
    \/ Setup
    \/ ReadPreference
    \/ SetupTools
    \/ SetupMcp
    \/ LoopExit

SpecTools == InitTools /\ [][NextTools]_vars

(***************************************************************************)
(* YouTubeStreamingUpload: one upload call and cancel_upload               *)
(***************************************************************************)
\* no run of the agent is in progress (the state of AgentRunner in the
\* specifications of the service)
RunIdle ==
    /\ InitRunCommon
    /\ max_iterations = 0
    /\ message_metadata = "absent"
    /\ agentpress_tools = [present |-> FALSE, map |-> <<>>]
    /\ is_suna_default = FALSE

InitUpload ==
    /\ RunIdle
    /\ ServiceIdle
    /\ ChannelsIdle
    /\ McpIdle
    /\ AuxIdle
    /\ up_pc = "idle"
    /\ mode \in {"bytes", "file"}
    /\ registered \in BOOLEAN
    /\ cancelled = FALSE
    /\ cancel_result = "none"
    /\ total_bytes \in TotalSizes
    /\ bytes_uploaded = 0
    /\ status = "none"
    /\ video_id = None
    /\ error = None
    /\ retries = 0
    /\ start = 0
    /\ chunk_len = 0
    /\ retry = 0
    /\ requests = <<>>
    /\ clock = 0
    /\ result = NoResult
    /\ progress_calls = <<>>

\* the end of the slice taken one byte too far
chunk_end_Long(first, total) == Min(first + CHUNK_SIZE + 1, total)

\* upload_stream.py 322: end of the slice of the byte buffer
chunk_end(first, total) == Min(first + CHUNK_SIZE, total)

\* upload_stream.py 233: number of bytes read from the file
chunk_size(uploaded, total) == Min(CHUNK_SIZE, total - uploaded)

\* the Content-Range of an attempt: (start, end - 1) at 334-335,
\* (bytes_uploaded, bytes_uploaded + len(chunk_data) - 1) at 245-246
start_byte == IF mode = "bytes" THEN start ELSE bytes_uploaded
end_byte == start_byte + chunk_len - 1

\* the places where the upload call is suspended and other coroutines run:
\* initiate_resumable_upload (128, 178), _upload_chunk (242, 331),
\* asyncio.sleep (286, 375), and for a file aiofiles.open (224) and f.read (234)
AwaitPoints == {"idle", "inflight", "sleep", "done"} \cup
               (IF mode = "file" THEN {"open", "read"} ELSE {})

\* the session is in self.sessions (137, 187)
SessionKnown == registered /\ up_pc # "idle"

\* UploadSession.progress_percentage (53-58): (bytes_uploaded / total_bytes)
\* * 100 as the pair it divides, 0.0 for an empty source
progress_percentage(uploaded, total) ==
    IF total = 0 THEN [num |-> 0, den |-> 1] ELSE [num |-> uploaded, den |-> total]

\* the literal 100.0 of 257 and 346
Hundred == [num |-> 1, den |-> 1]

\* on_progress(progress, bytes_uploaded, total_bytes)
ProgressCall(progress, uploaded, total) ==
    [progress |-> progress, uploaded |-> uploaded, total |-> total]

SetLastResult(reqs, r, v) ==
    [reqs EXCEPT ![Len(reqs)] = [@ EXCEPT !.result = r, !.video = v]]

\* upload_video_from_bytes 174-187, upload_video_from_file 120-137
InitiateUpload ==
    /\ up_pc = "idle"
    /\ \E ok \in BOOLEAN :
          IF ok
          THEN /\ up_pc' = "created"
               /\ status' = "initializing"
               /\ UNCHANGED result
          ELSE /\ up_pc' = "done"
               /\ result' = [NoResult EXCEPT !.kind = "initiate_failed"]
               /\ UNCHANGED status
    /\ UNCHANGED <<mode, registered, cancelled, cancel_result, total_bytes, bytes_uploaded,
                   video_id, error, retries, start, chunk_len, retry, requests, clock>>
    /\ UNCHANGED progress_calls
    /\ UNCHANGED otherThanUpload

\* 222, 311: session.status = "uploading"
BeginChunks ==
    /\ up_pc = "created"
    /\ status' = "uploading"
    /\ up_pc' = IF mode = "file" THEN "open" ELSE "loop"
    /\ UNCHANGED <<mode, registered, cancelled, cancel_result, total_bytes, bytes_uploaded,
                   video_id, error, retries, start, chunk_len, retry, requests, clock, result>>
    /\ UNCHANGED progress_calls
    /\ UNCHANGED otherThanUpload

\* 224: the file is opened
OpenFile ==
    /\ up_pc = "open"
    /\ up_pc' = "loop"
    /\ UNCHANGED <<mode, registered, cancelled, cancel_result, sessionVars,
                   start, chunk_len, retry, requests, clock, result>>
    /\ UNCHANGED progress_calls
    /\ UNCHANGED otherThanUpload

\* 225-230, 313-318: the cancellation check at the top of the loop
LoopCancelled ==
    /\ up_pc = "loop"
    /\ bytes_uploaded < total_bytes
    /\ registered /\ cancelled
    /\ status' = "cancelled"
    /\ result' = [NoResult EXCEPT !.kind = "cancelled"]
    /\ up_pc' = "done"
    /\ UNCHANGED <<mode, registered, cancelled, cancel_result, total_bytes, bytes_uploaded,
                   video_id, error, retries, start, chunk_len, retry, requests, clock>>
    /\ UNCHANGED progress_calls
    /\ UNCHANGED otherThanUpload

\* the next chunk chosen without looking at the cancellation set
NextChunk_NoCancelCheck ==
    /\ up_pc = "loop"
    /\ bytes_uploaded < total_bytes
    /\ start' = bytes_uploaded
    /\ chunk_len' = IF mode = "bytes"
                    THEN chunk_end(bytes_uploaded, total_bytes) - bytes_uploaded
                    ELSE chunk_size(bytes_uploaded, total_bytes)
    /\ retry' = 0
    /\ up_pc' = IF mode = "file" THEN "read" ELSE "attempt"
    /\ UNCHANGED <<mode, registered, cancelled, cancel_result, sessionVars,
                   requests, clock, result>>
    /\ UNCHANGED progress_calls
    /\ UNCHANGED otherThanUpload

\* 232-233, 320-323: the next chunk is chosen; the source holds total_bytes
\* bytes, so the chunk is never empty
NextChunk ==
    /\ up_pc = "loop"
    /\ bytes_uploaded < total_bytes
    /\ ~(registered /\ cancelled)
    /\ start' = bytes_uploaded
    /\ chunk_len' = IF mode = "bytes"
                    THEN chunk_end(bytes_uploaded, total_bytes) - bytes_uploaded
                    ELSE chunk_size(bytes_uploaded, total_bytes)
    /\ retry' = 0
    /\ up_pc' = IF mode = "file" THEN "read" ELSE "attempt"
    /\ UNCHANGED <<mode, registered, cancelled, cancel_result, sessionVars,
                   requests, clock, result>>
    /\ UNCHANGED progress_calls
    /\ UNCHANGED otherThanUpload

\* 234: f.read returns
ReadChunk ==
    /\ up_pc = "read"
    /\ up_pc' = "attempt"
    /\ UNCHANGED <<mode, registered, cancelled, cancel_result, sessionVars,
                   start, chunk_len, retry, requests, clock, result>>
    /\ UNCHANGED progress_calls
    /\ UNCHANGED otherThanUpload

\* 289, 378: the loop ended without a video id
NoData ==
    /\ up_pc = "loop"
    /\ ~(bytes_uploaded < total_bytes)
    /\ result' = [NoResult EXCEPT !.kind = "no_data"]
    /\ up_pc' = "done"
    /\ UNCHANGED <<mode, registered, cancelled, cancel_result, sessionVars,
                   start, chunk_len, retry, requests, clock>>
    /\ UNCHANGED progress_calls
    /\ UNCHANGED otherThanUpload

\* 242-247, 331-336: the request of one attempt is sent
SendChunk ==
    /\ up_pc = "attempt"
    /\ requests' = Append(requests, [start |-> start_byte, end |-> end_byte, at |-> clock,
                                     result |-> "pending", video |-> None])
    /\ up_pc' = "inflight"
    /\ UNCHANGED <<mode, registered, cancelled, cancel_result, sessionVars,
                   start, chunk_len, retry, clock, result>>
    /\ UNCHANGED progress_calls
    /\ UNCHANGED otherThanUpload

\* completion that leaves bytes_uploaded where it was
ChunkComplete_KeepBytes ==
    /\ up_pc = "inflight"
    /\ \E v \in VideoIds :
          /\ video_id' = v
          /\ requests' = SetLastResult(requests, "complete", v)
          /\ result' = [NoResult EXCEPT !.kind = "video", !.video = v]
    /\ status' = "completed"
    /\ up_pc' = "done"
    /\ UNCHANGED <<mode, registered, cancelled, cancel_result, total_bytes, bytes_uploaded,
                   error, retries, start, chunk_len, retry, clock>>
    /\ progress_calls' = Append(progress_calls,
                                ProgressCall(Hundred, total_bytes, total_bytes))
    /\ UNCHANGED otherThanUpload

\* 249-262, 338-351: the provider answers 200/201
ChunkComplete ==
    /\ up_pc = "inflight"
    /\ \E v \in VideoIds :
          /\ video_id' = v
          /\ requests' = SetLastResult(requests, "complete", v)
          /\ result' = [NoResult EXCEPT !.kind = "video", !.video = v]
    /\ bytes_uploaded' = total_bytes
    /\ status' = "completed"
    /\ up_pc' = "done"
    /\ UNCHANGED <<mode, registered, cancelled, cancel_result, total_bytes, error, retries,
                   start, chunk_len, retry, clock>>
    /\ progress_calls' = Append(progress_calls,
                                ProgressCall(Hundred, total_bytes, total_bytes))
    /\ UNCHANGED otherThanUpload

\* the acknowledged chunk counted as a whole chunk whatever its length
ChunkIncomplete_WholeChunk ==
    /\ up_pc = "inflight"
    /\ requests' = SetLastResult(requests, "incomplete", None)
    /\ bytes_uploaded' = bytes_uploaded + CHUNK_SIZE
    /\ up_pc' = "loop"
    /\ progress_calls' = Append(progress_calls,
                                ProgressCall(progress_percentage(bytes_uploaded',
                                                                 total_bytes),
                                             bytes_uploaded', total_bytes))
    /\ UNCHANGED <<mode, registered, cancelled, cancel_result, total_bytes, status, video_id,
                   error, retries, start, chunk_len, retry, clock, result>>
    /\ UNCHANGED otherThanUpload

\* 264-276, 353-365: the provider answers 308.  The progress callbacks the
\* callers pass (api/youtube/upload.py 559-566, tools/youtube/upload_video.py
\* 354-363) catch their own exceptions, so reporting progress never fails
\* the attempt.
ChunkIncomplete ==
    /\ up_pc = "inflight"
    /\ requests' = SetLastResult(requests, "incomplete", None)
    /\ bytes_uploaded' = IF mode = "bytes" THEN start + chunk_len
                         ELSE bytes_uploaded + chunk_len
    /\ up_pc' = "loop"
    /\ UNCHANGED <<mode, registered, cancelled, cancel_result, total_bytes, status, video_id,
                   error, retries, start, chunk_len, retry, clock, result>>
    /\ progress_calls' = Append(progress_calls,
                                ProgressCall(progress_percentage(bytes_uploaded',
                                                                 total_bytes),
                                             bytes_uploaded', total_bytes))
    /\ UNCHANGED otherThanUpload

\* the failure handler giving up one attempt late
ChunkFail_ExtraAttempt ==
    /\ up_pc = "inflight"
    /\ requests' = SetLastResult(requests, "failed", None)
    /\ retries' = retries + 1
    /\ IF retry = MAX_RETRIES
       THEN /\ status' = "failed"
            /\ error' = "chunk_error"
            /\ result' = [NoResult EXCEPT !.kind = "retries", !.retries = MAX_RETRIES]
            /\ up_pc' = "done"
       ELSE /\ up_pc' = "sleep"
            /\ UNCHANGED <<status, error, result>>
    /\ UNCHANGED <<mode, registered, cancelled, cancel_result, total_bytes, bytes_uploaded,
                   video_id, start, chunk_len, retry, clock>>
    /\ UNCHANGED progress_calls
    /\ UNCHANGED otherThanUpload

\* 278-286, 367-375: the attempt raises
ChunkFail ==
    /\ up_pc = "inflight"
    /\ requests' = SetLastResult(requests, "failed", None)
    /\ retries' = retries + 1
    /\ IF retry = MAX_RETRIES - 1
       THEN /\ status' = "failed"
            /\ error' = "chunk_error"
            /\ result' = [NoResult EXCEPT !.kind = "retries", !.retries = MAX_RETRIES]
            /\ up_pc' = "done"
       ELSE /\ up_pc' = "sleep"
            /\ UNCHANGED <<status, error, result>>
    /\ UNCHANGED <<mode, registered, cancelled, cancel_result, total_bytes, bytes_uploaded,
                   video_id, start, chunk_len, retry, clock>>
    /\ UNCHANGED progress_calls
    /\ UNCHANGED otherThanUpload

\* 286, 375 and the next pass of  for retry in range(MAX_RETRIES)
RetrySleep ==
    /\ up_pc = "sleep"
    /\ clock' = clock + RETRY_DELAY
    /\ retry' = retry + 1
    /\ up_pc' = "attempt"
    /\ UNCHANGED <<mode, registered, cancelled, cancel_result, sessionVars,
                   start, chunk_len, requests, result>>
    /\ UNCHANGED progress_calls
    /\ UNCHANGED otherThanUpload

\* cancel_upload 417-422: the session id is known
CancelUpload ==
    /\ up_pc \in AwaitPoints
    /\ SessionKnown
    /\ cancelled' = TRUE
    /\ status' = "cancelled"
    /\ cancel_result' = "true"
    /\ UNCHANGED <<up_pc, mode, registered, total_bytes, bytes_uploaded, video_id, error,
                   retries, start, chunk_len, retry, requests, clock, result>>
    /\ UNCHANGED progress_calls
    /\ UNCHANGED otherThanUpload

\* cancel_upload 423: the session id is not known
CancelUnknown ==
    /\ up_pc \in AwaitPoints
    /\ ~SessionKnown
    /\ cancel_result' = "false"
    /\ UNCHANGED <<up_pc, mode, registered, cancelled, sessionVars,
                   start, chunk_len, retry, requests, clock, result>>
    /\ UNCHANGED progress_calls
    /\ UNCHANGED otherThanUpload

NextUpload ==
    \/ InitiateUpload
    \/ BeginChunks
    \/ OpenFile
    \/ LoopCancelled
    \/ NextChunk
    \/ ReadChunk
    \/ NoData
    \/ SendChunk
    \/ ChunkComplete
    \/ ChunkIncomplete
    \/ ChunkFail
    \/ RetrySleep
    \/ CancelUpload
    \/ CancelUnknown

SpecUpload == InitUpload /\ [][NextUpload]_vars

(***************************************************************************)
(* YouTubeFileManager (file_manager.py).  The methods are operators on the *)
(* state st of the store and the disk: refs, disk, and the numbers of      *)
(* DELETE statements issued and of files removed in the call.              *)
(***************************************************************************)
FileState == [refs |-> refs, disk |-> disk, db_deletes |-> 0, file_removes |-> 0]

\* .eq("id", reference_id).eq("user_id", user_id): the row the query selects
select_reference(rs, user_id, reference_id) ==
    IF /\ reference_id \in DOMAIN rs
       /\ rs[reference_id].present
       /\ rs[reference_id].user_id = user_id
    THEN rs[reference_id]
    ELSE NoRef

\* the row deleted by its id alone
delete_row_AnyUser(rs, user_id, reference_id) ==
    [rs EXCEPT ![reference_id] = NoRef]

\* file_manager.py 347-349: DELETE ... WHERE id = reference_id AND user_id = user_id
delete_row(rs, user_id, reference_id) ==
    [rs EXCEPT ![reference_id] = IF @.present /\ @.user_id = user_id THEN NoRef ELSE @]

RECURSIVE get_file_reference(_, _, _, _, _)
RECURSIVE delete_file_reference(_, _, _, _, _)

\* get_file_reference (233-284).  An expired reference is handed to
\* delete_file_reference, which begins by calling get_file_reference for the
\* same reference: the two call each other until the interpreter raises
\* RecursionError (depth = 0), which the innermost frame catches (282-284).
get_file_reference(st, now, user_id, reference_id, depth) ==
    IF depth = 0 THEN [ret |-> NoRef, st |-> st]
    ELSE LET reference == select_reference(st.refs, user_id, reference_id)
         IN IF ~reference.present THEN [ret |-> NoRef, st |-> st]
            ELSE IF reference.expires_at < now
            THEN [ret |-> NoRef,
                  st |-> delete_file_reference(st, now, user_id, reference_id, depth - 1).st]
            ELSE [ret |-> reference, st |-> st]

\* delete_file_reference (320-356); RecursionError is caught at 354-356
delete_file_reference(st, now, user_id, reference_id, depth) ==
    IF depth = 0 THEN [ret |-> FALSE, st |-> st]
    ELSE LET g == get_file_reference(st, now, user_id, reference_id, depth - 1)
             reference == g.ret
             remove == /\ reference.present
                       /\ reference.file_path # NoPath
                       /\ reference.is_temporary
                       /\ reference.file_path \in g.st.disk
             st2 == IF remove
                    THEN [g.st EXCEPT !.disk = @ \ {reference.file_path},
                                      !.file_removes = @ + 1]
                    ELSE g.st
         IN [ret |-> TRUE,
             st |-> [st2 EXCEPT !.refs = delete_row(@, user_id, reference_id),
                                !.db_deletes = @ + 1]]

\* get_file_data (286-318): the bytes of the file, here whether they were read
get_file_data(st, now, user_id, reference_id, depth) ==
    LET g == get_file_reference(st, now, user_id, reference_id, depth)
    IN [ret |-> IF /\ g.ret.present
                   /\ g.ret.file_path # NoPath
                   /\ g.ret.file_path \in g.st.disk
                THEN g.ret ELSE NoRef,
        st |-> g.st]

\* the rows  .lt("expires_at", now)  selects (369-371)
expired_references(rs, now) == {r \in RefIds : rs[r].present /\ rs[r].expires_at < now}

\* the files of all expired references removed
cleanup_expired_references_AnyFile(st, now) ==
    LET expired == expired_references(st.refs, now)
        files == {st.refs[r].file_path : r \in {e \in expired : st.refs[e].file_path # NoPath}}
                 \cap st.disk
    IN [ret |-> Cardinality(expired),
        st |-> [refs |-> [r \in RefIds |-> IF r \in expired THEN NoRef ELSE st.refs[r]],
                disk |-> st.disk \ files,
                db_deletes |-> st.db_deletes + Cardinality(expired),
                file_removes |-> st.file_removes + Cardinality(files)]]

\* cleanup_expired_references (358-399)
cleanup_expired_references(st, now) ==
    LET expired == expired_references(st.refs, now)
        files == {st.refs[r].file_path :
                     r \in {e \in expired : st.refs[e].is_temporary /\ st.refs[e].file_path # NoPath}}
                 \cap st.disk
    IN [ret |-> Cardinality(expired),
        st |-> [refs |-> [r \in RefIds |-> IF r \in expired THEN NoRef ELSE st.refs[r]],
                disk |-> st.disk \ files,
                db_deletes |-> st.db_deletes + Cardinality(expired),
                file_removes |-> st.file_removes + Cardinality(files)]]

\* list_user_references (401-444): the ids of the rows returned
list_user_references(rs, now, user_id) ==
    {r \in RefIds : rs[r].present /\ rs[r].user_id = user_id /\ rs[r].expires_at > now}

\* create_file_reference (74-148) for a file of an accepted type: the file is
\* written, then the row is inserted (saved is false when the insert fails,
\* 474-476)
create_file_reference(st, now, user_id, reference_id, saved) ==
    LET file_path == StoredPath(user_id, reference_id)
        reference == [present |-> TRUE, user_id |-> user_id, is_temporary |-> TRUE,
                      expires_at |-> now + FILE_EXPIRY_HOURS, file_path |-> file_path]
    IN [ret |-> IF saved THEN reference ELSE NoRef,
        st |-> [st EXCEPT !.disk = @ \cup {file_path},
                          !.refs = IF saved THEN [@ EXCEPT ![reference_id] = reference] ELSE @]]

\* create_file_reference_from_path (150-231) for an allowed, existing file
create_file_reference_from_path(st, now, user_id, reference_id, file_path, saved) ==
    LET reference == [present |-> TRUE, user_id |-> user_id, is_temporary |-> FALSE,
                      expires_at |-> now + FILE_EXPIRY_HOURS, file_path |-> file_path]
    IN [ret |-> IF saved THEN reference ELSE NoRef,
        st |-> [st EXCEPT !.refs = IF saved THEN [@ EXCEPT ![reference_id] = reference] ELSE @]]

\* the depths at which a request can run into the recursion limit: the
\* error is caught in a frame of either method
Depths == {MaxDepth - 1, MaxDepth}

\* the record of a call of the file manager
FileCall(op, user_id, reference_id, ret, r) ==
    [NoCall EXCEPT
       !.op = op, !.user = user_id, !.id = reference_id, !.ret = ret,
       !.owner = IF ret = "reference" THEN r.ret.user_id ELSE "",
       !.db_deletes = r.st.db_deletes, !.file_removes = r.st.file_removes,
       !.before = refs[reference_id]]

\* time passes
Tick ==
    /\ fm_now < MaxTicks * FILE_EXPIRY_HOURS
    /\ fm_now' = fm_now + FILE_EXPIRY_HOURS
    /\ UNCHANGED <<refs, disk, next_ref, upload_references, uploads, next_upload, jobs, last>>
    /\ UNCHANGED otherThanService

\* create_file_reference called with a file of an accepted type
CreateFileReference ==
    /\ next_ref < MaxRefs
    /\ \E user_id \in Users, saved \in BOOLEAN :
          LET r == create_file_reference(FileState, fm_now, user_id, next_ref + 1, saved)
          IN /\ refs' = r.st.refs
             /\ disk' = r.st.disk
             /\ next_ref' = next_ref + 1
             /\ last' = FileCall("create_file_reference", user_id, next_ref + 1,
                                 IF r.ret.present THEN "reference" ELSE "raised", r)
    /\ UNCHANGED <<fm_now, upload_references, uploads, next_upload, jobs>>
    /\ UNCHANGED otherThanService

CreateFileReferenceFromPath ==
    /\ next_ref < MaxRefs
    /\ \E user_id \in Users, file_path \in CallerPaths, saved \in BOOLEAN :
          LET r == create_file_reference_from_path(FileState, fm_now, user_id, next_ref + 1,
                                                   file_path, saved)
          IN /\ refs' = r.st.refs
             /\ disk' = r.st.disk
             /\ next_ref' = next_ref + 1
             /\ last' = FileCall("create_file_reference_from_path", user_id, next_ref + 1,
                                 IF r.ret.present THEN "reference" ELSE "raised", r)
    /\ UNCHANGED <<fm_now, upload_references, uploads, next_upload, jobs>>
    /\ UNCHANGED otherThanService

GetFileReference ==
    /\ \E user_id \in Users, reference_id \in RefIds, depth \in Depths :
          LET r == get_file_reference(FileState, fm_now, user_id, reference_id, depth)
          IN /\ refs' = r.st.refs
             /\ disk' = r.st.disk
             /\ last' = FileCall("get_file_reference", user_id, reference_id,
                                 IF r.ret.present THEN "reference" ELSE "absent", r)
    /\ UNCHANGED <<fm_now, next_ref, upload_references, uploads, next_upload, jobs>>
    /\ UNCHANGED otherThanService

GetFileData ==
    /\ \E user_id \in Users, reference_id \in RefIds, depth \in Depths :
          LET r == get_file_data(FileState, fm_now, user_id, reference_id, depth)
          IN /\ refs' = r.st.refs
             /\ disk' = r.st.disk
             /\ last' = FileCall("get_file_data", user_id, reference_id,
                                 IF r.ret.present THEN "reference" ELSE "absent", r)
    /\ UNCHANGED <<fm_now, next_ref, upload_references, uploads, next_upload, jobs>>
    /\ UNCHANGED otherThanService

DeleteFileReference ==
    /\ \E user_id \in Users, reference_id \in RefIds, depth \in Depths :
          LET r == delete_file_reference(FileState, fm_now, user_id, reference_id, depth)
          IN /\ refs' = r.st.refs
             /\ disk' = r.st.disk
             /\ last' = FileCall("delete_file_reference", user_id, reference_id,
                                 IF r.ret THEN "true" ELSE "false", r)
    /\ UNCHANGED <<fm_now, next_ref, upload_references, uploads, next_upload, jobs>>
    /\ UNCHANGED otherThanService

CleanupExpiredReferences ==
    /\ LET r == cleanup_expired_references(FileState, fm_now)
       IN /\ refs' = r.st.refs
          /\ disk' = r.st.disk
          /\ last' = [NoCall EXCEPT !.op = "cleanup_expired_references",
                                    !.db_deletes = r.st.db_deletes,
                                    !.file_removes = r.st.file_removes]
    /\ UNCHANGED <<fm_now, next_ref, upload_references, uploads, next_upload, jobs>>
    /\ UNCHANGED otherThanService

ListUserReferences ==
    /\ \E user_id \in Users :
          LET ids == list_user_references(refs, fm_now, user_id)
          IN last' = [NoCall EXCEPT !.op = "list_user_references", !.user = user_id,
                                    !.ret = IF ids = {} THEN "empty" ELSE "references",
                                    !.owner = IF \E r \in ids : refs[r].user_id # user_id
                                              THEN "other" ELSE user_id]
    /\ UNCHANGED <<fileVars, upload_references, uploads, next_upload, jobs>>
    /\ UNCHANGED otherThanService

(***************************************************************************)
(* Upload routes (api/youtube/upload.py)                                   *)
(***************************************************************************)
\* what the client receives when a route raises HTTPException(status) inside
\* its try block: the route either has  except HTTPException: raise  before
\* except Exception  or it has not, and then every exception, HTTPException
\* included, becomes a 500
Response(reraises_http, status_code) == IF reraises_http THEN status_code ELSE 500

FileTypes == {"video", "thumbnail", "other"}
\* file.content_type: none, or its prefix
ContentTypes == {"", "video/", "image/", "text/"}

\* prepare_upload 42-58: the content type fits the declared file type
type_accepted(file_type, content_type) ==
    \/ file_type = "video" /\ content_type = "video/"
    \/ file_type = "thumbnail" /\ content_type = "image/"

RouteCall(op, user_id, id, case, status_code) ==
    [NoCall EXCEPT !.op = op, !.user = user_id, !.id = id, !.case = case, !.code = status_code]

\* POST /prepare-upload (24-114); this route has no  except HTTPException.
\* A file larger than MAX_FILE_SIZE makes create_file_reference raise
\* (file_manager.py 98-99); the store accepts the inserts.
prepare_upload_as(file_types) ==
    /\ \E user_id \in Users, file_type \in file_types, content_type \in ContentTypes,
          too_large \in BOOLEAN :
          IF ~type_accepted(file_type, content_type)
          THEN /\ ~too_large
               /\ last' = RouteCall("prepare_upload", user_id, 0, "type_mismatch",
                                    Response(FALSE, 400))
               /\ UNCHANGED <<refs, disk, next_ref, upload_references>>
          ELSE IF too_large
          THEN /\ last' = RouteCall("prepare_upload", user_id, 0, "too_large", 500)
               /\ UNCHANGED <<refs, disk, next_ref, upload_references>>
          ELSE /\ next_ref < MaxRefs
               /\ LET reference_id == next_ref + 1
                      r == create_file_reference(FileState, fm_now, user_id, reference_id, TRUE)
                  IN /\ refs' = r.st.refs
                     /\ disk' = r.st.disk
                     /\ next_ref' = reference_id
                     /\ upload_references' =
                            Append(upload_references,
                                   [id |-> UploadReferenceId(Len(upload_references) + 1),
                                    user_id |-> user_id, reference_id |-> reference_id,
                                    file_type |-> file_type, status |-> "pending"])
                     /\ last' = RouteCall("prepare_upload", user_id, reference_id, "ok", 200)
    /\ UNCHANGED <<fm_now, uploads, next_upload, jobs>>
    /\ UNCHANGED otherThanService

prepare_upload == prepare_upload_as(FileTypes)

\* the requests that stage a video, or name a file type the route refuses
prepare_video_upload == prepare_upload_as(FileTypes \ {"thumbnail"})

\* POST /upload (155-266); this route has no  except HTTPException.
\* reference_id 0 is a request without a reference id.
initiate_upload ==
    /\ \E user_id \in Users, has_channel_id \in BOOLEAN, reference_id \in {0} \cup RefIds,
          token \in {"ok", "raised"}, depth \in Depths :
          IF ~has_channel_id \/ reference_id = 0
          THEN /\ token = "ok" /\ depth = MaxDepth
               /\ last' = RouteCall("initiate_upload", user_id, reference_id, "missing_id",
                                    Response(FALSE, 400))
               /\ UNCHANGED <<refs, disk, uploads, next_upload, jobs>>
          ELSE IF token = "raised"
          THEN /\ depth = MaxDepth
               /\ last' = RouteCall("initiate_upload", user_id, reference_id, "token_failed", 500)
               /\ UNCHANGED <<refs, disk, uploads, next_upload, jobs>>
          ELSE LET r == get_file_data(FileState, fm_now, user_id, reference_id, depth)
               IN /\ refs' = r.st.refs
                  /\ disk' = r.st.disk
                  /\ IF ~r.ret.present
                     THEN /\ last' = RouteCall("initiate_upload", user_id, reference_id,
                                               "reference_gone", Response(FALSE, 404))
                          /\ UNCHANGED <<uploads, next_upload, jobs>>
                     ELSE /\ next_upload < MaxUploads
                          /\ LET upload_id == next_upload + 1
                             IN /\ uploads' = [uploads EXCEPT ![upload_id] =
                                      [present |-> TRUE, user_id |-> user_id,
                                       upload_status |-> "uploading", upload_progress |-> 0,
                                       error_message |-> "", video_id |-> ""]]
                                /\ next_upload' = upload_id
                                /\ jobs' = [jobs EXCEPT ![upload_id] =
                                      [NoJob EXCEPT !.state = "running", !.kind = "route"]]
                                /\ last' = RouteCall("initiate_upload", user_id, upload_id,
                                                     "ok", 200)
    /\ UNCHANGED <<fm_now, next_ref, upload_references>>
    /\ UNCHANGED otherThanService

\* GET /upload/status/{upload_id} (269-318); .single() finding no row either
\* gives no data (404) or raises (500)
get_upload_status ==
    /\ \E user_id \in Users, upload_id \in UploadIds, no_row \in {404, 500} :
          IF uploads[upload_id].present /\ uploads[upload_id].user_id = user_id
          THEN /\ no_row = 404
               /\ last' = [RouteCall("get_upload_status", user_id, upload_id, "ok", 200)
                              EXCEPT !.owner = uploads[upload_id].user_id,
                                     !.ret = uploads[upload_id].upload_status]
          ELSE last' = RouteCall("get_upload_status", user_id, upload_id, "not_found",
                                 Response(TRUE, no_row))
    /\ UNCHANGED <<fileVars, upload_references, uploads, next_upload, jobs>>
    /\ UNCHANGED otherThanService

\* DELETE /upload/{upload_id} (501-544)
cancel_upload ==
    /\ \E user_id \in Users, upload_id \in UploadIds :
          IF uploads[upload_id].present /\ uploads[upload_id].user_id = user_id
          THEN /\ uploads' = [uploads EXCEPT ![upload_id].upload_status = "cancelled"]
               /\ last' = [RouteCall("cancel_upload", user_id, upload_id, "ok", 200)
                              EXCEPT !.owner = uploads[upload_id].user_id]
          ELSE /\ last' = RouteCall("cancel_upload", user_id, upload_id, "not_found",
                                    Response(TRUE, 404))
               /\ UNCHANGED uploads
    /\ UNCHANGED <<fileVars, upload_references, next_upload, jobs>>
    /\ UNCHANGED otherThanService

(***************************************************************************)
(* Background upload jobs: _perform_upload (api/youtube/upload.py 547-594) *)
(* and the actor process_video_upload (tasks.py 40-85)                     *)
(***************************************************************************)
\* the percentages an upload reports
ProgressValues == {40, 100}

JobStep(upload_id) == [NoCall EXCEPT !.op = "job", !.id = upload_id]

\* upload.py 560-567: update_progress; a failure of the update is logged only
PerformProgress ==
    /\ \E upload_id \in UploadIds, progress \in ProgressValues, written \in BOOLEAN :
          /\ jobs[upload_id].state = "running" /\ jobs[upload_id].kind = "route"
          /\ progress > jobs[upload_id].reported
          /\ jobs' = [jobs EXCEPT ![upload_id].reported = progress]
          /\ uploads' = IF written
                        THEN [uploads EXCEPT ![upload_id].upload_progress = progress]
                        ELSE uploads
          /\ last' = JobStep(upload_id)
    /\ UNCHANGED <<fileVars, upload_references, next_upload>>
    /\ UNCHANGED otherThanService

\* upload.py 570-585: the upload returned a video id
PerformComplete ==
    /\ \E upload_id \in UploadIds :
          /\ jobs[upload_id].state = "running" /\ jobs[upload_id].kind = "route"
          /\ jobs' = [jobs EXCEPT ![upload_id].state = "ended"]
          /\ uploads' = [uploads EXCEPT ![upload_id].video_id = "video",
                                        ![upload_id].upload_status = "completed",
                                        ![upload_id].upload_progress = 100]
          /\ last' = JobStep(upload_id)
    /\ UNCHANGED <<fileVars, upload_references, next_upload>>
    /\ UNCHANGED otherThanService

\* the failure handler resetting the progress
PerformFail_ResetProgress ==
    /\ \E upload_id \in UploadIds :
          /\ jobs[upload_id].state = "running" /\ jobs[upload_id].kind = "route"
          /\ jobs' = [jobs EXCEPT ![upload_id].state = "failed"]
          /\ uploads' = [uploads EXCEPT ![upload_id].upload_status = "failed",
                                        ![upload_id].upload_progress = 0,
                                        ![upload_id].error_message = "error"]
          /\ last' = JobStep(upload_id)
    /\ UNCHANGED <<fileVars, upload_references, next_upload>>
    /\ UNCHANGED otherThanService

\* upload.py 587-594: the upload, or the update of the record after it,
\* raised; str(e) of the exceptions raised there is not empty
PerformFail ==
    /\ \E upload_id \in UploadIds :
          /\ jobs[upload_id].state = "running" /\ jobs[upload_id].kind = "route"
          /\ jobs' = [jobs EXCEPT ![upload_id].state = "failed"]
          /\ uploads' = [uploads EXCEPT ![upload_id].upload_status = "failed",
                                        ![upload_id].error_message = "error"]
          /\ last' = JobStep(upload_id)
    /\ UNCHANGED <<fileVars, upload_references, next_upload>>
    /\ UNCHANGED otherThanService

\* process_video_upload (tasks.py 47-85) run by the broker for an upload
\* record.  _process_upload_async begins with channels_manager.get_channel
\* (110), a method YouTubeMCPChannels does not have, so every run raises
\* there, before any update of the record; the handler at 77-85 writes
\* 'failed' and the message through _update_upload_status (221-266, progress
\* left None) and raises to the broker.
process_video_upload ==
    /\ \E upload_id \in UploadIds :
          /\ uploads[upload_id].present
          /\ jobs[upload_id].state \in {"ended", "failed", "raised"}
          /\ jobs[upload_id].attempts < MaxAttempts
          /\ jobs' = [jobs EXCEPT ![upload_id] =
                        [@ EXCEPT !.state = "raised", !.kind = "actor",
                                  !.attempts = @ + 1]]
          /\ uploads' = [uploads EXCEPT ![upload_id].upload_status = "failed",
                                        ![upload_id].error_message = "error"]
          /\ last' = JobStep(upload_id)
    /\ UNCHANGED <<fileVars, upload_references, next_upload>>
    /\ UNCHANGED otherThanService

\* the file manager alone
InitFiles ==
    /\ RunIdle
    /\ UploadIdle
    /\ ServiceIdle
    /\ ChannelsIdle
    /\ McpIdle
    /\ AuxIdle

NextFiles ==
    \/ Tick
    \/ CreateFileReference
    \/ CreateFileReferenceFromPath
    \/ GetFileReference
    \/ GetFileData
    \/ DeleteFileReference
    \/ CleanupExpiredReferences
    \/ ListUserReferences

SpecFiles == InitFiles /\ [][NextFiles]_vars

\* the upload routes, with the calls of the file manager made for a user
InitRoutes ==
    /\ RunIdle
    /\ UploadIdle
    /\ ServiceIdle
    /\ ChannelsIdle
    /\ McpIdle
    /\ AuxIdle

NextRoutes ==
    \/ Tick
    \/ prepare_video_upload
    \/ initiate_upload
    \/ get_upload_status
    \/ cancel_upload
    \/ GetFileReference
    \/ GetFileData
    \/ DeleteFileReference
    \/ ListUserReferences

SpecRoutes == InitRoutes /\ [][NextRoutes]_vars

\* the upload records POST /upload has created, each with its job started
\* (212-252)
StartedUploads ==
    {[u \in UploadIds |-> IF u <= n
                          THEN [present |-> TRUE, user_id |-> owner[u],
                                upload_status |-> "uploading", upload_progress |-> 0,
                                error_message |-> "", video_id |-> ""]
                          ELSE NoUploadRecord] :
        n \in 1..MaxUploads, owner \in [UploadIds -> Users]}

\* the background jobs of the upload records
InitJobs ==
    /\ RunIdle
    /\ UploadIdle
    /\ ChannelsIdle
    /\ McpIdle
    /\ AuxIdle
    /\ fm_now = 0
    /\ refs = [r \in RefIds |-> NoRef]
    /\ disk = CallerPaths
    /\ next_ref = 0
    /\ upload_references = <<>>
    /\ uploads \in StartedUploads
    /\ next_upload = Cardinality({u \in UploadIds : uploads[u].present})
    /\ jobs = [u \in UploadIds |-> IF uploads[u].present
                                    THEN [NoJob EXCEPT !.state = "running", !.kind = "route"]
                                    ELSE NoJob]
    /\ last = NoCall

NextJobs ==
    \/ PerformProgress
    \/ PerformComplete
    \/ PerformFail
    \/ process_video_upload
    \/ cancel_upload
    \/ get_upload_status

SpecJobs == InitJobs /\ [][NextJobs]_vars

(***************************************************************************)
(* YouTubeMCPChannels: the calls on one manager instance                   *)
(***************************************************************************)
\* the record of a call and the state it leaves
ChannelCall(op, user_id, channel_id, r, fields) ==
    /\ youtube_channels' = r.st.store
    /\ _channels_cache' = r.st.cache
    /\ ch_last' = [fields EXCEPT !.op = op, !.user = user_id, !.id = channel_id,
                                 !.ret = r.ret,
                                 !.store_reads = r.st.reads,
                                 !.store_writes = r.st.writes,
                                 !.store_refused = r.st.refused,
                                 !.prev = [op |-> ch_last.op, id |-> ch_last.id,
                                           ret |-> ch_last.ret]]
    /\ UNCHANGED ch_now
    /\ UNCHANGED otherThanChannels

\* one second passes
ChannelTick ==
    /\ ch_now < MaxClock
    /\ ch_now' = ch_now + 1
    /\ UNCHANGED <<youtube_channels, _channels_cache, ch_last>>
    /\ UNCHANGED otherThanChannels

\* save_channel with the channel of a token just issued to the user
\* (get_channel_for_token 70-111)
SaveChannel ==
    \E user_id \in ChannelUsers, channel_id \in ChannelIds, upsert_ok \in BOOLEAN :
        ChannelCall("save_channel", user_id, channel_id,
                    save_channel(ChanState, user_id, channel_id,
                                 IssuedToken(ch_now, "r"), upsert_ok),
                    NoChannelCall)

GetUserChannels ==
    \E user_id \in ChannelUsers, use_cache \in BOOLEAN, select_ok \in BOOLEAN :
        LET r == get_user_channels(ChanState, user_id, use_cache, select_ok)
        IN  ChannelCall("get_user_channels", user_id, "", [ret |-> "ok", st |-> r.st],
                        [NoChannelCall EXCEPT !.use_cache = use_cache,
                                              !.channels = r.ret])

GetValidAccessToken ==
    \E user_id \in ChannelUsers, channel_id \in ChannelIds,
       select_ok \in BOOLEAN, refresh_ok \in BOOLEAN, upsert_ok \in BOOLEAN :
        LET r == get_valid_access_token(ChanState, ch_now, channel_id, user_id,
                                        select_ok, refresh_ok, upsert_ok)
        IN  ChannelCall("get_valid_access_token", user_id, channel_id, r,
                        [NoChannelCall EXCEPT
                            !.access_token = r.access_token,
                            !.checked = r.checked,
                            !.expiry = r.expiry,
                            !.expired = r.expired,
                            !.provider_calls = r.provider_calls])

DeleteChannel ==
    \E user_id \in ChannelUsers, channel_id \in ChannelIds, delete_ok \in BOOLEAN :
        ChannelCall("delete_channel", user_id, channel_id,
                    delete_channel(ChanState, channel_id, user_id, delete_ok),
                    NoChannelCall)

\* DELETE /api/youtube/channels/{channel_id} (api/youtube/channels.py
\* 232-275).  The route works on a manager of its own (248), whose cache is
\* empty.  delete_channel raises only when the store refuses the delete, with
\* the store's message in the ValueError (channels.py 340-342); message_says:
\* that message contains "not found".
disconnect_channel ==
    \E user_id \in ChannelUsers, channel_id \in ChannelIds, delete_ok \in BOOLEAN,
       message_says \in BOOLEAN :
        LET own == [ChanState EXCEPT !.cache = [u \in Users |-> NotCached]]
            r == delete_channel(own, channel_id, user_id, delete_ok)
            status_code == IF r.ret = "ok" THEN 200
                           ELSE IF message_says THEN 404
                           ELSE 400
        IN  /\ youtube_channels' = r.st.store
            /\ ch_last' = [NoChannelCall EXCEPT
                              !.op = "disconnect_channel", !.user = user_id,
                              !.id = channel_id, !.ret = r.ret, !.code = status_code,
                              !.store_writes = r.st.writes,
                              !.store_refused = r.st.refused,
                              !.prev = [op |-> ch_last.op, id |-> ch_last.id,
                                        ret |-> ch_last.ret]]
            /\ UNCHANGED <<ch_now, _channels_cache>>
            /\ UNCHANGED otherThanChannels

\* YouTubeToolsLoader.load_tools_for_user (tools/youtube/loader.py 44-90) on
\* the loader's manager: get_channels_list (channels.py 373-392) answers from
\* get_user_channels with the cache in use; a failed lookup leaves no channel
load_tools_for_user ==
    \E user_id \in ChannelUsers, select_ok \in BOOLEAN :
        LET r == get_user_channels(ChanState, user_id, TRUE, select_ok)
            has_channels == \E c \in ChannelIds : r.ret[c] # NoChannel
            offered == {"authenticate", "channels_enabled"}
                        \cup (IF has_channels THEN {"channels", "upload_video"} ELSE {})
        IN  ChannelCall("load_tools_for_user", user_id, "", [ret |-> "ok", st |-> r.st],
                        [NoChannelCall EXCEPT !.use_cache = TRUE,
                                              !.channels = r.ret,
                                              !.offered = offered])

\* a manager created for a request (api/youtube/channels.py 31, upload.py
\* 187): its cache is empty, the table holds what earlier requests saved
InitChannels ==
    /\ RunIdle
    /\ UploadIdle
    /\ ServiceIdle
    /\ ch_now = 0
    /\ youtube_channels \in
           {rows \in [Users \X ChannelIds -> StoredTokens \cup {NoChannel}] :
               \A k \in (Users \ ChannelUsers) \X ChannelIds :
                   rows[k] # NoChannel /\ rows[k].refresh_token = "r"}
    /\ _channels_cache = [u \in Users |-> NotCached]
    /\ ch_last = NoChannelCall
    /\ McpIdle
    /\ AuxIdle

NextChannels ==
    \/ ChannelTick
    \/ SaveChannel
    \/ GetUserChannels
    \/ GetValidAccessToken
    \/ DeleteChannel
    \/ disconnect_channel
    \/ load_tools_for_user

SpecChannels == InitChannels /\ [][NextChannels]_vars

(***************************************************************************)
(* UploadVideoTool (tools/youtube/upload_video.py) over the tables of the  *)
(* upload routes, the file manager and the channel manager                 *)
(***************************************************************************)
NoUploadReference ==
    [id |-> 0, user_id |-> "", reference_id |-> 0, file_type |-> "", status |-> ""]

\* .eq(user_id).eq(file_type).eq("status", "pending").order("created_at",
\* desc=True).limit(1)  (upload_video.py 236-247)
latest_pending(rows, user_id, file_type) ==
    LET found == {i \in 1..Len(rows) : /\ rows[i].user_id = user_id
                                        /\ rows[i].file_type = file_type
                                        /\ rows[i].status = "pending"}
    IN  IF found = {} THEN NoUploadReference
        ELSE rows[CHOOSE i \in found : \A j \in found : j <= i]

\* upload_video.py 232-259; select_ok: the selects did not raise
_get_latest_pending_uploads(rows, user_id, select_ok) ==
    IF select_ok
    THEN [video |-> latest_pending(rows, user_id, "video"),
          thumbnail |-> latest_pending(rows, user_id, "thumbnail")]
    ELSE [video |-> NoUploadReference, thumbnail |-> NoUploadReference]

\* upload_video.py 377-386: the rows with one of the ids become 'used'
_mark_references_used(rows, reference_ids) ==
    [i \in 1..Len(rows) |-> IF rows[i].id \in reference_ids
                            THEN [rows[i] EXCEPT !.status = "used"]
                            ELSE rows[i]]

\* upload_video.py 224-230: an exception inside execute becomes the
\* upload_failed payload
caught_Propagating(failure) == [ret |-> "raised", case |-> "", failure |-> failure]

caught(failure) == [ret |-> "returned", case |-> "upload_failed", failure |-> failure]

\* what upload_video_from_bytes sends for a video of one chunk: the
\* initiation and the chunk (upload_stream.py 297-346)
TransferRequests == 2

\* the request of execute that fails, if one does: the first failure ends
\* the call, so at most one matters
FailurePoints ==
    {"none", "select", "channel_select", "refresh", "upsert", "insert", "transfer"}

\* UploadVideoTool.execute (78-230).  select_ok: the lookup of the pending
\* rows succeeds; channel_select_ok, refresh_ok, upsert_ok: as in
\* get_valid_access_token; insert_ok: the insert of the upload record
\* succeeds; transfer_ok: the transfer to the provider succeeds
UploadVideoTool_execute ==
    /\ \E user_id \in ChannelUsers, channel_id \in ChannelIds, scheduled_for \in BOOLEAN,
          failing \in FailurePoints, depth \in Depths :
        LET select_ok == failing # "select"
            channel_select_ok == failing # "channel_select"
            refresh_ok == failing # "refresh"
            upsert_ok == failing # "upsert"
            insert_ok == failing # "insert"
            transfer_ok == failing # "transfer"
            pending == _get_latest_pending_uploads(upload_references, user_id, select_ok)
            video_reference == pending.video
            thumbnail_reference == pending.thumbnail
            t == get_valid_access_token(ChanState, ch_now, channel_id, user_id,
                                        channel_select_ok, refresh_ok, upsert_ok)
            c == get_channel_by_id(t.st, channel_id, user_id, channel_select_ok)
            d == get_file_data(FileState, fm_now, user_id, video_reference.id, depth)
            f == get_file_reference(d.st, fm_now, user_id, video_reference.id, depth)
            upload_id == next_upload + 1
            record == [present |-> TRUE, user_id |-> user_id,
                       upload_status |-> IF scheduled_for THEN "scheduled" ELSE "uploading",
                       upload_progress |-> 0, error_message |-> "", video_id |-> ""]
            answer(res, inserted, sent) ==
                last' = [NoCall EXCEPT !.op = "execute", !.user = user_id,
                                       !.id = video_reference.id,
                                       !.ret = res.ret, !.case = res.case,
                                       !.failure = res.failure,
                                       !.scheduled = scheduled_for,
                                       !.records = inserted,
                                       !.provider_calls = t.provider_calls + sent,
                                       !.transfer_requests = sent]
            returned(case) == [ret |-> "returned", case |-> case, failure |-> ""]
        IN  IF video_reference = NoUploadReference
            THEN /\ last' = [NoCall EXCEPT !.op = "execute", !.user = user_id,
                                           !.ret = "returned", !.case = "no_video",
                                           !.scheduled = scheduled_for]
                 /\ UNCHANGED <<refs, disk, uploads, next_upload, jobs, upload_references,
                                youtube_channels, _channels_cache>>
            ELSE /\ youtube_channels' = c.st.store
                 /\ _channels_cache' = c.st.cache
                 /\ IF t.ret = "raise" \/ c.ret = "raise"
                    THEN /\ answer(caught("token"), 0, 0)
                         /\ UNCHANGED <<refs, disk, uploads, next_upload, jobs,
                                        upload_references>>
                    ELSE IF ~d.ret.present
                    THEN /\ answer(returned("file_not_found"), 0, 0)
                         /\ refs' = d.st.refs
                         /\ disk' = d.st.disk
                         /\ UNCHANGED <<uploads, next_upload, jobs, upload_references>>
                    ELSE /\ refs' = f.st.refs
                         /\ disk' = f.st.disk
                         /\ IF ~insert_ok
                            THEN /\ answer(caught("insert"), 0, 0)
                                 /\ UNCHANGED <<uploads, next_upload, jobs,
                                                upload_references>>
                            ELSE /\ next_upload < MaxUploads
                                 /\ next_upload' = upload_id
                                 /\ UNCHANGED jobs
                                 /\ IF scheduled_for
                                    THEN /\ answer(returned("youtube-upload-scheduled"), 1, 0)
                                         /\ uploads' = [uploads EXCEPT ![upload_id] = record]
                                         /\ UNCHANGED upload_references
                                    ELSE IF ~transfer_ok
                                    THEN /\ answer(caught("transfer"), 1, TransferRequests)
                                         /\ uploads' = [uploads EXCEPT ![upload_id] = record]
                                         /\ UNCHANGED upload_references
                                    ELSE /\ answer(returned("youtube-upload"), 1,
                                                   TransferRequests)
                                         /\ uploads' = [uploads EXCEPT ![upload_id] =
                                                [record EXCEPT !.upload_status = "completed",
                                                               !.upload_progress = 100,
                                                               !.video_id = "video"]]
                                         /\ upload_references' =
                                                _mark_references_used(upload_references,
                                                    {video_reference.id,
                                                     thumbnail_reference.id})
    /\ UNCHANGED <<fm_now, next_ref>>
    /\ UNCHANGED <<ch_now, ch_last>>
    /\ UNCHANGED <<runVars, upVars, mcpVars, auxVars>>

\* the tool of the loader (loader.py 36-40) with its managers, the table
\* youtube_channels holding what the routes have saved
InitUploadTool ==
    /\ RunIdle
    /\ UploadIdle
    /\ ServiceIdle
    /\ ch_now = 0
    /\ youtube_channels \in
           {rows \in [Users \X ChannelIds -> StoredTokens \cup {NoChannel}] :
               /\ \A k \in (Users \ ChannelUsers) \X ChannelIds : rows[k] = NoChannel
               /\ \A k \in ChannelUsers \X ChannelIds :
                      rows[k] = NoChannel \/ rows[k].refresh_token # ""}
    /\ _channels_cache = [u \in Users |-> NotCached]
    /\ ch_last = NoChannelCall
    /\ McpIdle
    /\ AuxIdle

NextUploadTool ==
    \/ Tick
    \/ prepare_upload
    \/ UploadVideoTool_execute
    \/ GetFileData

SpecUploadTool == InitUploadTool /\ [][NextUploadTool]_vars

(***************************************************************************)
(* One run's MCP setup and the calls of the MCP tool bridge                *)
(***************************************************************************)
\* AgentRunner.setup_tools collects the channel ids (run.py 435-457)
setup_tools_channels ==
    /\ mcp_last.op = "none"
    /\ mcp_last' = [NoMcpCall EXCEPT !.op = "setup_tools", !.ret = "ok",
                                     !.channel_ids = youtube_channels_of(custom_mcps)]
    /\ UNCHANGED <<account_id, configured_mcps, custom_mcps, mcp_configs>>
    /\ UNCHANGED otherThanMcp

\* MCPManager.register_mcp_tools, once in a run.  The wrapper keeps the
\* merged list it is constructed with as mcp_configs, the attribute the
\* bridge reads.
RegisterMcpTools ==
    /\ mcp_last.op \in {"none", "setup_tools"}
    /\ \E init_ok \in BOOLEAN :
        LET r == register_mcp_tools(configured_mcps, custom_mcps, account_id, init_ok)
        IN  /\ custom_mcps' = r.custom_mcps
            /\ mcp_configs' = wrapper_mcp_configs(r)
            /\ mcp_last' = [NoMcpCall EXCEPT !.op = "register_mcp_tools", !.ret = r.ret,
                                             !.all_mcps = r.all_mcps]
    /\ UNCHANGED <<account_id, configured_mcps>>
    /\ UNCHANGED otherThanMcp

\* MCPToolExecutor.execute_tool on the bridge of the registered wrapper.  The
\* bridge keeps nothing from one call to the next, so a behaviour holds one
\* call.
ExecuteTool ==
    /\ mcp_configs # <<>>
    /\ mcp_last.op = "register_mcp_tools"
    /\ \E tool_name \in ToolNames, tool_info \in ToolInfos, outcome \in Outcomes :
        LET r == execute_tool(tool_name, tool_info, outcome, mcp_configs)
        IN  mcp_last' = [NoMcpCall EXCEPT !.op = "execute_tool", !.ret = r.ret,
                                          !.tool_name = tool_name,
                                          !.tool_info = tool_info,
                                          !.outcome = outcome,
                                          !.success = r.success,
                                          !.handler = r.handler,
                                          !.method = r.method,
                                          !.user_id = r.user_id,
                                          !.channel_ids = r.channel_ids]
    /\ UNCHANGED <<account_id, configured_mcps, custom_mcps, mcp_configs>>
    /\ UNCHANGED otherThanMcp

\* an agent configuration before the run's setup
InitMcp ==
    /\ RunIdle
    /\ UploadIdle
    /\ ServiceIdle
    /\ ChannelsIdle
    /\ account_id = "A"
    /\ configured_mcps \in SeqsUpTo(ConfiguredMcpMenu, 1)
    /\ custom_mcps \in SeqsUpTo(CustomMcpMenu, MaxMcps)
    /\ mcp_configs = <<>>
    /\ mcp_last = NoMcpCall
    /\ AuxIdle

NextMcp ==
    \/ setup_tools_channels
    \/ RegisterMcpTools
    \/ ExecuteTool

SpecMcp == InitMcp /\ [][NextMcp]_vars

(***************************************************************************)
(* The channels of a user as shown, and the refresh of their tokens        *)
(***************************************************************************)
GetChannelsList ==
    /\ view_last' = [NoViewCall EXCEPT !.op = "get_channels_list",
                                       !.views = get_channels_list(channel_table)]
    /\ UNCHANGED channel_table
    /\ UNCHANGED otherThanViews

\* get_valid_access_token on a channel whose token has expired and has a
\* refresh token, the provider answering the refresh request (channels.py
\* 284-300)
RefreshToken ==
    /\ \E id \in ViewIds, token_data \in RefreshResponses :
          /\ channel_table[id].present
          /\ channel_table[id].token.refresh_token # ""
          /\ channel_table' = [channel_table EXCEPT
                                  ![id] = refreshed_channel(@, token_data, 7600)]
          /\ view_last' = [NoViewCall EXCEPT !.op = "refresh", !.id = id,
                                             !.before = channel_table[id],
                                             !.token_data = token_data]
    /\ UNCHANGED otherThanViews

InitViews ==
    /\ RunIdle
    /\ UploadIdle
    /\ ServiceIdle
    /\ ChannelsIdle
    /\ McpIdle
    /\ MessagesIdle
    /\ SessionsIdle
    /\ \E rows \in [ViewIds -> ChannelMenu \cup {NoRow}] :
          channel_table = [id \in ViewIds |->
                              IF rows[id].present THEN [rows[id] EXCEPT !.id = id]
                              ELSE NoRow]
    /\ view_last = NoViewCall

NextViews ==
    \/ GetChannelsList
    \/ RefreshToken

SpecViews == InitViews /\ [][NextViews]_vars

(***************************************************************************)
(* The image_context messages of a thread across the turns of a run        *)
(***************************************************************************)
\* a tool of the turn adds an image_context message to the thread
AddImageContext ==
    /\ image_added < MaxImages
    /\ \E kind \in ContentKinds :
          image_contexts' = Append(image_contexts,
                                   ImageContext(image_added + 1, kind))
    /\ image_added' = image_added + 1
    /\ UNCHANGED <<included, temp_turns, temp_last>>
    /\ UNCHANGED otherThanMessages

\* one turn of the loop (run.py 576-596) builds its temporary message
BuildTemporaryMessage ==
    /\ temp_turns < MaxIter + 1
    /\ \E delete_ok \in BOOLEAN :
          LET ids == temporary_ids(image_contexts)
          IN  /\ image_contexts' = thread_after(image_contexts, delete_ok)
              /\ included' = [id \in 1..MaxImages |->
                                 IF id \in ids THEN included[id] + 1
                                 ELSE included[id]]
              /\ temp_last' = [op |-> "build_temporary_message", ids |-> ids,
                               delete_ok |-> delete_ok,
                               read |-> latest_image_context(image_contexts)]
    /\ temp_turns' = temp_turns + 1
    /\ UNCHANGED image_added
    /\ UNCHANGED otherThanMessages

InitMessages ==
    /\ RunIdle
    /\ UploadIdle
    /\ ServiceIdle
    /\ ChannelsIdle
    /\ McpIdle
    /\ ViewIdle
    /\ SessionsIdle
    /\ MessagesIdle

NextMessages ==
    \/ AddImageContext
    \/ BuildTemporaryMessage

SpecMessages == InitMessages /\ [][NextMessages]_vars

(***************************************************************************)
(* Calls of the session manager on one session, interleaved at their       *)
(* awaits                                                                  *)
(***************************************************************************)
\* update_session 93-95: the session is read; the call ends with False when
\* there is none, and is suspended at the await of 103 otherwise
UpdateRead ==
    /\ \E u \in Updaters, updates \in OneFieldUpdates :
          /\ updaters[u].pc = "idle"
          /\ LET found == get_session(session_store)
             IN  updaters' = [updaters EXCEPT ![u] =
                    IF found.present
                    THEN [pc |-> "read", updates |-> updates,
                          session_data |-> found.data, ret |-> "none"]
                    ELSE [pc |-> "done", updates |-> updates,
                          session_data |-> NoSession.data, ret |-> "false"]]
    /\ UNCHANGED <<session_store, removed_during>>
    /\ UNCHANGED otherThanSessions

\* update_session 98-110: the copy read, with the updates, is stored under
\* the key with a fresh TTL
UpdateWrite ==
    /\ \E u \in Updaters :
          /\ updaters[u].pc = "read"
          /\ session_store' = StoredSession(updated(updaters[u].session_data,
                                                    updaters[u].updates))
          /\ updaters' = [updaters EXCEPT ![u].pc = "done", ![u].ret = "true"]
    /\ UNCHANGED removed_during
    /\ UNCHANGED otherThanSessions

\* delete_session 139-145: redis.delete removes the key
DeleteSession ==
    /\ session_store.present
    /\ session_store' = NoSession
    /\ removed_during' = removed_during \cup {u \in Updaters : updaters[u].pc = "read"}
    /\ UNCHANGED updaters
    /\ UNCHANGED otherThanSessions

\* the TTL of the key (SESSION_TTL, 15) runs out and Redis removes it
ExpireSession ==
    /\ session_store.present
    /\ session_store' = NoSession
    /\ removed_during' = removed_during \cup {u \in Updaters : updaters[u].pc = "read"}
    /\ UNCHANGED updaters
    /\ UNCHANGED otherThanSessions

\* a session created by create_session, no call on it yet
InitSessions ==
    /\ RunIdle
    /\ UploadIdle
    /\ ServiceIdle
    /\ ChannelsIdle
    /\ McpIdle
    /\ ViewIdle
    /\ MessagesIdle
    /\ session_store \in {StoredSession(d) : d \in [SessionFields -> {"old"}]}
    /\ updaters = [u \in Updaters |-> IdleUpdater]
    /\ removed_during = {}

NextSessions ==
    \/ UpdateRead
    \/ UpdateWrite
    \/ DeleteSession
    \/ ExpireSession

SpecSessions == InitSessions /\ [][NextSessions]_vars

(***************************************************************************)
(* Properties of AgentRunner.run                                           *)
(***************************************************************************)
IsErrorStatus(c) == c.type = "status" /\ c.status = "error"

IsTerminalStatus(c) == c.type = "status" /\ (c.status \in {"error", "stopped"} \/ c.term)

\* the chunks of out that came from the current response stream
TurnRange == (turn_start + 1)..Len(out)

ErrorSeen == \E i \in TurnRange : out[i].src = "stream" /\ IsErrorStatus(out[i])

TerminationSeen == \E i \in TurnRange : out[i].src = "stream" /\ (out[i].term \/ out[i].tag)

\* the failures of a run the contract speaks of
FailurePaths == {"setup_failed", "tools_failed", "mcp_failed", "run_thread_raised",
                 "stream_raised", "not_stream"}

\* C1: every failure of a run (setup, tool or MCP registration, the
\* thread-execution call raising, the stream raising, a response that is not
\* a stream) has reached the caller as an error status chunk, and run() has
\* not raised out of its stream.
C1_FailuresAreErrorChunks ==
    exit \in FailurePaths =>
        /\ ~raised
        /\ \E i \in 1..Len(out) : IsErrorStatus(out[i])

\* C2: a run that has ended on one of the loop's exit paths (billing stop,
\* error in the stream, termination signal, latest message from the
\* assistant, budget exhausted) has yielded a terminal status chunk.
C2_TerminalStatusBeforeEnd ==
    (pc = "done" /\ exit \in {"billing", "error_detected", "terminated",
                              "assistant_latest", "budget"}) =>
        \E i \in 1..Len(out) : IsTerminalStatus(out[i])

\* C3: when the assistant text accumulated over one turn's stream contains a
\* closing tag, the loop stops after that stream: no further turn is issued.
C3_AccumulatedTagStops ==
    (pc \in {"loop", "run_thread"} /\ turns > 0 /\ ContainsClosingTag(full_response)) =>
        (pc = "loop" /\ ~continue_execution)

\* C4: after a turn's stream has ended, (1) an error status chunk seen in it
\* stops the run, termination signal or not, every chunk of the stream having
\* been forwarded; (2) else a termination signal (agent_should_terminate or a
\* chunk with a closing tag) ends the loop; (3) otherwise, and only then, the
\* next iteration starts exactly if the iteration budget allows.
C4_DecisionAfterStream ==
    /\ (pc \in {"loop", "run_thread"} \/ exit = "error_detected") =>
          Len(out) = turn_start + pos
    /\ (pc # "stream" /\ turns > 0 /\ exit \notin {"run_thread_raised", "engine_error", "not_stream",
                                                   "stream_raised"}) =>
          /\ ErrorSeen => (pc = "done" /\ exit = "error_detected")
          /\ (~ErrorSeen /\ TerminationSeen) =>
                (~continue_execution /\ pc \in {"loop", "done"} /\ exit \in {"none", "terminated"})
          /\ (~ErrorSeen /\ ~TerminationSeen /\ pc = "loop") =>
                (continue_execution /\ (ENABLED BeginTurn <=> iteration_count < max_iterations))
          /\ pc = "run_thread" => (~ErrorSeen /\ ~TerminationSeen)

C4_Witness ==
    /\ pc = "done" /\ exit = "error_detected"
    /\ ErrorSeen /\ TerminationSeen
    /\ pos = MaxChunks
    /\ iteration_count < max_iterations

\* C5: when the billing check reports that the account cannot run, run()
\* yields exactly one 'stopped' status chunk and issues no model turn in
\* that iteration or later; on the first iteration it has made no turn.
C5_BillingStop ==
    /\ [](exit = "billing" =>
            /\ pc = "done"
            /\ Cardinality({i \in 1..Len(out) : out[i] = RunStatus("stopped")}) = 1
            /\ out[Len(out)] = RunStatus("stopped")
            /\ turns = iteration_count - 1
            /\ (iteration_count = 1 => turns = 0))
    /\ [][exit = "billing" => (turns' = turns /\ out' = out)]_vars

C5_Witness == exit = "billing" /\ iteration_count = 2 /\ turns = 1

\* C6: a run with max_iterations = N issues at most N model turns, and a run
\* that ends with no billing stop, error, termination signal or
\* assistant-authored latest message has issued exactly N.
C6_IterationBudget ==
    /\ turns <= max_iterations
    /\ (pc = "done" /\ exit = "budget") => turns = max_iterations

C6_Witness == pc = "done" /\ exit = "budget" /\ turns = MaxIter

\* the web search tool is selected by the agent's tool configuration
WebSearchConfigured ==
    LET enabled_tools == enabled_tools_of(agentpress_tools, is_suna_default)
    IN ~enabled_tools.present \/ safe_tool_check(enabled_tools.map, "web_search_tool")

\* C7: once the tools of a run are registered, the web search tool is absent
\* when the latest user message sets enable_web_search to false, and present
\* when the key is absent or true (in the custom path, if its flag is set).
C7_WebSearchGating ==
    tool_manager.constructed =>
        /\ message_metadata = "false" => "web_search" \notin tools
        /\ message_metadata # "false" => ("web_search" \in tools <=> WebSearchConfigured)

(***************************************************************************)
(* Properties of the upload engine                                         *)
(***************************************************************************)
\* C8: chunk requests go out in byte order and one at a time: the first
\* starts at byte 0, each next one repeats the range of a failed request or
\* starts right after an acknowledged one, none is longer than CHUNK_SIZE,
\* and only the newest request can be unanswered.
C8_ChunksInOrder ==
    /\ Len(requests) > 0 => requests[1].start = 0
    /\ \A i \in 1..Len(requests) :
          /\ requests[i].start <= requests[i].end
          /\ requests[i].end - requests[i].start + 1 <= CHUNK_SIZE
          /\ requests[i].end < total_bytes
          /\ requests[i].result = "pending" => (i = Len(requests) /\ up_pc = "inflight")
    /\ \A i \in 1..(Len(requests) - 1) :
          \/ /\ requests[i].result = "failed"
             /\ requests[i + 1].start = requests[i].start
             /\ requests[i + 1].end = requests[i].end
          \/ /\ requests[i].result = "incomplete"
             /\ requests[i + 1].start = requests[i].end + 1
    /\ up_pc = "inflight" => requests[Len(requests)].result = "pending"

C8_Witness ==
    /\ Len(requests) = 4
    /\ requests[1].result = "failed"
    /\ requests[2].result = "incomplete"
    /\ requests[3].result = "incomplete"
    /\ requests[4].result = "pending"
    /\ requests[4].start = 2 * CHUNK_SIZE

\* the provider answered 'incomplete' to every chunk but the last, 'complete'
\* to the last one, and no attempt failed
C9_Scenario(reqs, total) ==
    /\ total > 0
    /\ Len(reqs) > 0
    /\ \A i \in 1..(Len(reqs) - 1) : reqs[i].result = "incomplete"
    /\ reqs[Len(reqs)].result = "complete"
    /\ reqs[Len(reqs)].end = total - 1

\* C9: in that scenario the call ends having sent ceil(T / CHUNK_SIZE)
\* requests, with bytes_uploaded = T and status 'completed', and returns the
\* provider's video id.
C9_CompletesInCeilChunks ==
    [][(up_pc # "done" /\ up_pc' = "done" /\ C9_Scenario(requests', total_bytes')) =>
          /\ Len(requests') = (total_bytes' + CHUNK_SIZE - 1) \div CHUNK_SIZE
          /\ bytes_uploaded' = total_bytes'
          /\ status' = "completed"
          /\ result'.kind = "video"
          /\ result'.video = requests'[Len(requests')].video
          /\ video_id' = result'.video]_vars

C9_Witness ==
    /\ up_pc = "done"
    /\ total_bytes = 600 * MiB
    /\ C9_Scenario(requests, total_bytes)
    /\ Len(requests) = 3
    /\ requests[1].end - requests[1].start + 1 = 256 * MiB
    /\ requests[2].end - requests[2].start + 1 = 256 * MiB
    /\ requests[3].end - requests[3].start + 1 = 88 * MiB

\* the last n requests were attempts for one chunk and all failed
LastFailed(reqs, n) ==
    /\ Len(reqs) >= n
    /\ \A i \in (Len(reqs) - n + 1)..Len(reqs) :
          /\ reqs[i].result = "failed"
          /\ reqs[i].start = reqs[Len(reqs)].start
          /\ reqs[i].end = reqs[Len(reqs)].end

\* C10: the upload fails for retries exactly when the last 3 requests were
\* attempts for one chunk that all failed (the chunk before them was
\* acknowledged, whatever failures it had), 5 seconds apart; the error names
\* 3 retries, the status is 'failed', bytes_uploaded has not moved past the
\* chunk, and no request follows.
C10_RetryExhaustion ==
    /\ [](result.kind = "retries" =>
            /\ up_pc = "done"
            /\ result.retries = 3
            /\ LastFailed(requests, 3)
            /\ (Len(requests) > 3 => requests[Len(requests) - 3].result = "incomplete")
            /\ \A i \in (Len(requests) - 1)..Len(requests) :
                  requests[i].at = requests[i - 1].at + 5
            /\ bytes_uploaded = requests[Len(requests)].start
            /\ error # None)
    /\ [](LastFailed(requests, 3) => result.kind = "retries")
    /\ [][(up_pc # "done" /\ result'.kind = "retries") => status' = "failed"]_vars
    /\ [][result.kind = "retries" => requests' = requests]_vars

C10_Witness ==
    /\ result.kind = "retries"
    /\ Len(requests) = 5
    /\ requests[1].result = "failed"
    /\ requests[2].result = "incomplete"
    /\ retries = 4

IsCall(ops) == last'.op \in ops /\ fm_now' = fm_now

\* C12: get_file_reference(user, id) for a stored reference of that user
\* whose expires_at has passed returns absent and leaves the row deleted
\* and, when is_temporary is true, the file deleted; a call for a reference
\* that is no longer stored returns absent and deletes nothing.
C12_ExpiredFetchRemoves ==
    /\ [][(/\ IsCall({"get_file_reference"})
            /\ refs[last'.id].present
            /\ refs[last'.id].user_id = last'.user
            /\ refs[last'.id].expires_at < fm_now) =>
              /\ last'.ret = "absent"
              /\ ~refs'[last'.id].present
              /\ refs[last'.id].is_temporary => refs[last'.id].file_path \notin disk']_vars
    /\ [][(IsCall({"get_file_reference"}) /\ ~refs[last'.id].present) =>
              /\ last'.ret = "absent"
              /\ last'.db_deletes = 0
              /\ last'.file_removes = 0]_vars

\* C13: the file of a reference with is_temporary = false is never deleted:
\* it exists as long as the reference does, and it still exists after any
\* call of delete_file_reference, get_file_reference or
\* cleanup_expired_references, which remove the row only.
C13_CallerFilesKept ==
    /\ [](\A r \in RefIds :
            (refs[r].present /\ ~refs[r].is_temporary) => refs[r].file_path \in disk)
    /\ [][\A r \in RefIds :
            (refs[r].present /\ ~refs[r].is_temporary) =>
               /\ refs[r].file_path \in disk'
               /\ refs'[r] \in {refs[r], NoRef}]_vars
    /\ [][\A path \in CallerPaths : path \in disk => path \in disk']_vars

C13_Witness ==
    /\ last.op = "cleanup_expired_references"
    /\ last.db_deletes > 0
    /\ last.file_removes = 0
    /\ next_ref > 0
    /\ \A r \in RefIds : ~refs[r].present
    /\ CallerPaths \subseteq disk

\* the calls made on behalf of a user that C14 speaks of
UserCalls == {"get_file_reference", "get_file_data", "delete_file_reference",
              "list_user_references", "get_upload_status", "cancel_upload"}

\* C14: a call made on behalf of one user returns no file reference or
\* upload record of another user, and leaves every reference (row and file)
\* and every upload record of another user as it was.
C14_UserIsolation ==
    [][IsCall(UserCalls) =>
          /\ last'.owner \in {"", last'.user}
          /\ \A r \in RefIds :
                (refs[r].present /\ refs[r].user_id # last'.user) =>
                   /\ refs'[r] = refs[r]
                   /\ refs[r].file_path \in disk => refs[r].file_path \in disk'
          /\ \A u \in UploadIds :
                (uploads[u].present /\ uploads[u].user_id # last'.user) =>
                   uploads'[u] = uploads[u]]_vars

C14_Witness ==
    /\ last.op = "delete_file_reference"
    /\ last.user = "A"
    /\ last.ret = "true"
    /\ refs[last.id].present
    /\ refs[last.id].user_id = "B"
    /\ refs[last.id].expires_at < fm_now
    /\ refs[last.id].file_path \in disk
    /\ \E u \in UploadIds : uploads[u].present /\ uploads[u].user_id = "B"

C20_ClientErrors ==
    /\ [](/\ (last.op = "prepare_upload" /\ last.case = "type_mismatch") => last.code = 400
          /\ (last.op = "initiate_upload" /\ last.case = "missing_id") => last.code = 400
          /\ (last.op = "initiate_upload" /\ last.case = "reference_gone") => last.code = 404)
    /\ [][(/\ IsCall({"prepare_upload", "initiate_upload"})
            /\ last'.case \in {"type_mismatch", "missing_id", "reference_gone"}) =>
              /\ next_ref' = next_ref
              /\ next_upload' = next_upload
              /\ upload_references' = upload_references
              /\ \A r \in RefIds : refs'[r].present => refs[r].present
              /\ \A u \in UploadIds : uploads'[u] = uploads[u] /\ jobs'[u] = jobs[u]]_vars

(***************************************************************************)
(* Properties of the channel manager                                       *)
(***************************************************************************)
\* the step is a call of one of the operations `ops` on the manager
IsChannelCall(ops) == ch_last'.op \in ops /\ ch_now' = ch_now

\* the rows the table holds for a user, as a map of channel id to token
StoredChannels(user_id) == [c \in ChannelIds |-> youtube_channels[<<user_id, c>>]]

\* C15: between calls, the map the manager holds for a user, which is what
\* get_user_channels(user, use_cache=true) returns, has exactly the channels
\* of the user's rows in the table, each with the token of its row.
C15_CacheMatchesStore ==
    \A user_id \in ChannelUsers :
        _channels_cache[user_id].cached =>
            _channels_cache[user_id].channels = StoredChannels(user_id)

\* C16: a get_user_channels(user, use_cache=true) that follows a successful
\* save_channel of a channel of that user returns an entry for the channel
\* with the token just saved, and sends no read to the store.
C16_SavedThenCached ==
    [][ ( /\ IsChannelCall({"get_user_channels"})
          /\ ch_last.op = "save_channel"
          /\ ch_last.ret = "ok"
          /\ ch_last'.user = ch_last.user
          /\ ch_last'.use_cache )
        => /\ ch_last'.channels[ch_last.id] # NoChannel
           /\ ch_last'.channels[ch_last.id] = youtube_channels[<<ch_last.user, ch_last.id>>]
           /\ ch_last'.store_reads = 0 ]_vars

\* save_channel stored a token and the next call read it from the cache
C16_Witness ==
    /\ ch_last.op = "get_user_channels"
    /\ ch_last.use_cache
    /\ ch_last.prev.op = "save_channel"
    /\ ch_last.prev.ret = "ok"
    /\ ch_last.store_reads = 0
    /\ ch_last.channels[ch_last.prev.id] = IssuedToken(ch_now, "r")
    /\ \E c \in ChannelIds : youtube_channels[<<ch_last.user, c>>] \in StoredTokens

\* C17: get_valid_access_token(channel, user) on a row of the table, the
\* store answering every request of the call.  Row not expired under the
\* 5-minute rule: the access token of the row is returned, with no provider
\* call and no store write.  Row expired with a refresh token: a call that
\* returns has asked the provider once and leaves in the row the token whose
\* access token it returned.  Row expired without a refresh token, or the
\* provider refuses: the call fails and the row is unchanged.
C17_ValidAccessToken ==
    [][ ( /\ IsChannelCall({"get_valid_access_token"})
          /\ ch_last'.store_refused = 0
          /\ youtube_channels[<<ch_last'.user, ch_last'.id>>] # NoChannel )
        => LET k == <<ch_last'.user, ch_last'.id>>
               row == youtube_channels[k]
               row_expired == ch_now + 5 * 60 >= row.expiry
           IN  /\ ~row_expired =>
                     /\ ch_last'.ret = "ok"
                     /\ ch_last'.access_token = row.access_token
                     /\ ch_last'.provider_calls = 0
                     /\ ch_last'.store_writes = 0
                     /\ youtube_channels' = youtube_channels
               /\ (row_expired /\ row.refresh_token # "" /\ ch_last'.ret = "ok") =>
                     /\ ch_last'.provider_calls = 1
                     /\ youtube_channels'[k] # row
                     /\ youtube_channels'[k].access_token = ch_last'.access_token
               /\ (row_expired /\ row.refresh_token = "") =>
                     /\ ch_last'.ret = "raise"
                     /\ youtube_channels' = youtube_channels
               /\ ch_last'.ret = "raise" => youtube_channels' = youtube_channels ]_vars

\* C18: is_token_expired with the default buffer answers true exactly when
\* now + 5 minutes >= expiry: true for an expiry of now + 300 seconds, false
\* for an expiry of now + 301 seconds.
C18_InclusiveBoundary ==
    [][ (IsChannelCall({"get_valid_access_token"}) /\ ch_last'.checked)
        => /\ ch_last'.expired <=> (ch_now + 5 * 60 >= ch_last'.expiry)
           /\ ch_last'.expiry = ch_now + 300 => ch_last'.expired
           /\ ch_last'.expiry = ch_now + 301 => ~ch_last'.expired ]_vars

\* a token was examined exactly 5 minutes before its expiry and found expired
C18_Witness ==
    /\ ch_last.op = "get_valid_access_token"
    /\ ch_last.checked
    /\ ch_last.expired
    /\ ch_last.expiry = ch_now + 300

\* C21: DELETE /api/youtube/channels/{id} for a channel the calling user has
\* removes the row when the store accepts the delete and answers 200; for an
\* id the calling user has no channel with, it answers 404.
C21_DisconnectChannel ==
    [][ IsChannelCall({"disconnect_channel"})
        => LET k == <<ch_last'.user, ch_last'.id>>
           IN  /\ (youtube_channels[k] # NoChannel /\ ch_last'.store_refused = 0) =>
                     /\ youtube_channels'[k] = NoChannel
                     /\ ch_last'.code = 200
               /\ youtube_channels[k] = NoChannel => ch_last'.code = 404 ]_vars

\* C30: load_tools_for_user(u) always offers authenticate and
\* channels_enabled, and offers channels and upload_video exactly when the
\* table holds a channel of u at the time of the call and the lookup, if one
\* was made, did not fail.
C30_ToolsForUser ==
    [][ IsChannelCall({"load_tools_for_user"})
        => LET connected == \E c \in ChannelIds :
                                youtube_channels[<<ch_last'.user, c>>] # NoChannel
               gated == {"channels", "upload_video"} \cap ch_last'.offered
           IN  /\ {"authenticate", "channels_enabled"} \subseteq ch_last'.offered
               /\ gated \in {{}, {"channels", "upload_video"}}
               /\ gated # {} <=> (connected /\ ch_last'.store_refused = 0) ]_vars

(***************************************************************************)
(* Properties of UploadVideoTool                                           *)
(***************************************************************************)
\* the video the user staged last that is still pending, and whether its
\* file reference is stored, not expired and on disk
StagedVideo(user_id) == latest_pending(upload_references, user_id, "video")

StagedVideoUsable(user_id) ==
    LET v == StagedVideo(user_id)
    IN  /\ v # NoUploadReference
        /\ refs[v.reference_id].present
        /\ refs[v.reference_id].user_id = user_id
        /\ refs[v.reference_id].expires_at >= fm_now
        /\ refs[v.reference_id].file_path \in disk

\* C22: an unscheduled execute of a user whose staged video has not expired,
\* with the pending rows found and the access token obtained, reads the file
\* reference stored under the reference id of the staged row and does not
\* report the file as not found.
C22_ActsOnStagedVideo ==
    [][ ( /\ IsCall({"execute"})
          /\ ~last'.scheduled
          /\ StagedVideoUsable(last'.user)
          /\ last'.case # "no_video"
          /\ last'.failure # "token" )
        => /\ last'.id = StagedVideo(last'.user).reference_id
           /\ last'.case # "file_not_found" ]_vars

\* C23: an execute with a schedule, the staged video usable and no step of
\* the call failing, creates exactly one upload record, with status
\* 'scheduled', answers with the scheduled response and sends no request of
\* the transfer.
C23_ScheduledOnly ==
    [][ ( /\ IsCall({"execute"})
          /\ last'.scheduled
          /\ StagedVideoUsable(last'.user)
          /\ last'.case # "no_video"
          /\ last'.failure = "" )
        => /\ last'.case = "youtube-upload-scheduled"
           /\ last'.records = 1
           /\ next_upload' = next_upload + 1
           /\ uploads'[next_upload'].upload_status = "scheduled"
           /\ \A u \in UploadIds : u # next_upload' => uploads'[u] = uploads[u]
           /\ last'.transfer_requests = 0 ]_vars

\* C24: execute always returns.  Without a pending video row of the user it
\* returns the no_video error, creates no upload record and calls no
\* provider; an exception in any later step is returned as the
\* upload_failed error.
C24_NeverRaises ==
    [][ IsCall({"execute"})
        => /\ last'.ret = "returned"
           /\ StagedVideo(last'.user) = NoUploadReference =>
                 /\ last'.case = "no_video"
                 /\ last'.records = 0
                 /\ last'.provider_calls = 0
                 /\ uploads' = uploads
                 /\ youtube_channels' = youtube_channels
           /\ last'.failure # "" => last'.case = "upload_failed" ]_vars

\* a call with a staged video failed on the access token and returned the
\* upload_failed error
C24_Witness ==
    /\ last.op = "execute"
    /\ last.ret = "returned"
    /\ last.case = "upload_failed"
    /\ last.failure = "token"
    /\ StagedVideo(last.user) # NoUploadReference

(***************************************************************************)
(* Properties of MCP registration and of the MCP tool bridge               *)
(***************************************************************************)
\* the entry of the merged list made from the i-th custom entry
MergedEntry(i) == mcp_last'.all_mcps[Len(configured_mcps) + i]

Registered == mcp_last'.op = "register_mcp_tools" /\ mcp_last'.ret # "raise"

\* C25: register_mcp_tools gives every custom entry the qualified name it
\* carries when it carries one; otherwise composio.<slug> for a composio
\* entry and custom_<type>_<slug> for any other type ('My Tool' of type sse
\* gives custom_sse_my_tool, composio 'Gmail Search' composio.gmail_search).
C25_QualifiedNames ==
    [][ Registered
        => \A i \in DOMAIN custom_mcps :
              LET given == custom_mcps[i]
                  custom_type == custom_type_of(given)
                  name == MergedEntry(i).qualifiedName
              IN  /\ given.qualifiedName # <<>> => name = given.qualifiedName
                  /\ (given.qualifiedName = <<>> /\ custom_type = "composio")
                        => name = <<"composio.">> \o slug(given.name)
                  /\ (given.qualifiedName = <<>> /\ custom_type # "composio")
                        => name = <<"custom_", custom_type, "_">> \o slug(given.name)
                  /\ (given.qualifiedName = <<>> /\ custom_type = "sse"
                      /\ given.name = <<"M", "y", " ", "T", "o", "o", "l">>)
                        => name = <<"custom_", "sse", "_",
                                    "m", "y", "_", "t", "o", "o", "l">>
                  /\ (given.qualifiedName = <<>> /\ custom_type = "composio"
                      /\ given.name = <<"G", "m", "a", "i", "l", " ",
                                        "S", "e", "a", "r", "c", "h">>)
                        => name = <<"composio.", "g", "m", "a", "i", "l", "_",
                                    "s", "e", "a", "r", "c", "h">> ]_vars

\* the ids X, not empty, for which the agent configuration has a
\* social-media YouTube custom entry named social.youtube.X
ConfiguredChannelIds ==
    { Tail(custom_mcps[i].qualifiedName) :
        i \in { j \in DOMAIN custom_mcps :
                  /\ custom_mcps[j].customType = "social-media"
                  /\ custom_mcps[j].platform = "youtube"
                  /\ Len(custom_mcps[j].qualifiedName) >= 2
                  /\ custom_mcps[j].qualifiedName[1] = "social.youtube." } }

ChannelIdsUsed == { mcp_last'.channel_ids[i] : i \in DOMAIN mcp_last'.channel_ids }

\* C26: the channel ids that scope the YouTube tool are exactly the ids X,
\* not empty, of the agent configuration's social-media YouTube entries
\* named social.youtube.X, both where setup_tools collects them and where
\* the bridge collects them for a call.
C26_ChannelIds ==
    [][ /\ mcp_last'.op = "setup_tools" => ChannelIdsUsed = ConfiguredChannelIds
        /\ (mcp_last'.op = "execute_tool" /\ mcp_last'.user_id # Absent)
              => ChannelIdsUsed = ConfiguredChannelIds ]_vars

\* C27: after register_mcp_tools every social-media custom entry of the
\* merged list has config.user_id equal to the acting account, whatever the
\* agent configuration supplied, and no entry's configuration holds the
\* bearer credential.
C27_UserIdStamped ==
    [][ Registered
        => /\ \A i \in DOMAIN custom_mcps :
                 MergedEntry(i).customType = "social-media"
                    => MergedEntry(i).config.user_id = account_id
           /\ \A i \in DOMAIN mcp_last'.all_mcps :
                 mcp_last'.all_mcps[i].config.jwt_token = Absent ]_vars

\* the entry the agent configuration supplied with another user's id is in
\* the merged list with the acting account's id
C27_Witness ==
    /\ mcp_last.op = "register_mcp_tools"
    /\ mcp_last.ret = "wrapper"
    /\ \E i \in DOMAIN mcp_last.all_mcps :
          /\ mcp_last.all_mcps[i].name = <<"Y", "T">>
          /\ mcp_last.all_mcps[i].customType = "social-media"
          /\ mcp_last.all_mcps[i].config.user_id = account_id

\* C28: execute_tool returns a result object for every tool name and
\* arguments; what the transport of any handler raises becomes a failure
\* result.
C28_NeverPropagates ==
    [][ mcp_last'.op = "execute_tool"
        => /\ mcp_last'.ret = "result"
           /\ raises(mcp_last'.outcome) => ~mcp_last'.success ]_vars

\* the sse handler, which has no handler of its own, met a timeout and the
\* caller got a failure result
C28_Witness ==
    /\ mcp_last.op = "execute_tool"
    /\ mcp_last.handler = "sse"
    /\ mcp_last.outcome = "timeout"
    /\ mcp_last.ret = "result"
    /\ ~mcp_last.success

\* C29: for a social-media YouTube tool whose user id resolves, each of the
\* four tool names invokes the YouTubeTool method of that name and returns
\* its result; any other tool name gives a failure result.
C29_MethodMapping ==
    [][ ( /\ mcp_last'.op = "execute_tool"
          /\ mcp_last'.handler = "social-media"
          /\ mcp_last'.user_id # Absent )
        => IF mcp_last'.tool_name \in YouTubeMethods
           THEN /\ mcp_last'.method = mcp_last'.tool_name
                /\ mcp_last'.success <=> (mcp_last'.outcome = "ok")
           ELSE /\ mcp_last'.method = "none"
                /\ ~mcp_last'.success ]_vars

(***************************************************************************)
(* Properties of the masked view and of the refresh                        *)
(***************************************************************************)
\* the fields of MCPChannelMasked (channels.py 40-50)
MaskedFields ==
    {"id", "name", "custom_url", "thumbnail_url", "subscriber_count", "view_count",
     "video_count", "has_token", "capabilities"}

\* the tokens that differ from t in access token, refresh token and expiry
SecretVariants(t) ==
    { YouTubeToken(a, r, e, t.scopes) :
        a \in {"a1", "a2"}, r \in {"", "r1"}, e \in {100, 4000} }

\* C31: get_channels_list returns masked views only, and the masked view of
\* a channel is the same whatever the access token, the refresh token and
\* the expiry of its token are.
C31_MaskedViews ==
    view_last.op = "get_channels_list"
    => /\ \A v \in view_last.views : DOMAIN v = MaskedFields
       /\ \A id \in ViewIds :
             channel_table[id].present
             => \A t \in SecretVariants(channel_table[id].token) :
                   mask_channel([channel_table[id] EXCEPT !.token = t]) \in view_last.views

\* two channels with different access and refresh tokens have been listed
C31_Witness ==
    /\ view_last.op = "get_channels_list"
    /\ channel_table["c1"].present
    /\ channel_table["c2"].present
    /\ channel_table["c1"].token.access_token # channel_table["c2"].token.access_token
    /\ channel_table["c1"].token.refresh_token # channel_table["c2"].token.refresh_token
    /\ Cardinality(view_last.views) = 2

\* C39: after a refresh the channel has the scopes, and its masked view the
\* capabilities, it had before, unless the provider's response lists scopes,
\* and then it has those.
C39_RefreshKeepsScopes ==
    [][ view_last'.op = "refresh"
        => LET before == view_last'.before
               after == channel_table'[view_last'.id]
               token_data == view_last'.token_data
           IN  IF token_data.has_scope
               THEN after.token.scopes = token_data.scope
               ELSE /\ after.token.scopes = before.token.scopes
                    /\ mask_channel(after).capabilities
                          = mask_channel(before).capabilities ]_vars

(***************************************************************************)
(* Properties of the temporary message                                     *)
(***************************************************************************)
\* C32: across the turns of a run no image_context message is included in
\* the temporary message of more than one turn.
C32_IncludedOnce ==
    \A id \in 1..MaxImages : included[id] <= 1

(***************************************************************************)
(* Properties of a cancelled upload record                                 *)
(***************************************************************************)
\* C34: a record DELETE /upload/{id} has set to 'cancelled' (no other code
\* writes that status) keeps it: no step of the background transfer of the
\* upload writes another status over it.
C34_CancelledStays ==
    [][ \A upload_id \in UploadIds :
            (/\ uploads[upload_id].present
             /\ uploads[upload_id].upload_status = "cancelled"
             /\ jobs[upload_id].kind = "route"
             /\ jobs[upload_id].state = "running")
            => uploads'[upload_id].upload_status = "cancelled" ]_vars

(***************************************************************************)
(* Properties of the status and the requests of an upload session          *)
(***************************************************************************)
FinalStatuses == {"completed", "failed", "cancelled"}

\* the order of the statuses of a session
StatusRank(s) ==
    CASE s = "none" -> 0
      [] s = "initializing" -> 1
      [] s = "uploading" -> 2
      [] OTHER -> 3

\* C35: the status of a session only moves forward, and once it is
\* completed, failed or cancelled no step changes it, neither cancel_upload
\* nor the answer to a chunk.
C35_StatusForwardOnly ==
    [][ /\ StatusRank(status) <= StatusRank(status')
        /\ status \in FinalStatuses => status' = status ]_vars

\* C36: once cancel_upload has returned true for a session, no chunk
\* request is sent for it, neither for a new chunk nor as a retry.
C36_NoRequestAfterCancel ==
    [][ (cancelled /\ cancel_result = "true") => requests' = requests ]_vars

\* C37: when an upload call that created its session ends, the status is
\* 'completed' exactly when a video id is returned and otherwise 'failed'
\* or 'cancelled'; the 'no data to upload' error ends only calls on an
\* empty source that sent no chunk request.
C37_StatusMatchesOutcome ==
    [][ (up_pc # "done" /\ up_pc' = "done" /\ result'.kind # "initiate_failed")
        => /\ (status' = "completed") <=> (result'.kind = "video")
           /\ status' \in FinalStatuses
           /\ result'.kind = "no_data" => (total_bytes = 0 /\ requests' = <<>>) ]_vars

\* a / b <= c / d for naturals with b, d > 0, by comparing the integer
\* parts and then the reciprocals of the fractional parts, so that no
\* product of two byte counts is formed
RECURSIVE RatioLeq(_, _, _, _)
RatioLeq(a, b, c, d) ==
    IF a \div b # c \div d THEN a \div b < c \div d
    ELSE IF a % b = 0 THEN TRUE
    ELSE IF c % d = 0 THEN FALSE
    ELSE RatioLeq(d, c % d, b, a % b)

\* p <= q for two percentages, each (num / den) * 100
PercentLeq(p, q) == RatioLeq(p.num, p.den, q.num, q.den)

\* C38: always 0 <= bytes_uploaded <= total_bytes; no step decreases
\* bytes_uploaded, and a failed attempt or a retry leaves it as it is; the
\* percentages given to on_progress lie between 0 and 100 and never decrease
\* from one call to the next.
C38_ProgressBounds ==
    /\ [](/\ 0 <= bytes_uploaded
          /\ bytes_uploaded <= total_bytes
          /\ \A i \in 1..Len(progress_calls) :
                /\ PercentLeq(progress_percentage(0, 1), progress_calls[i].progress)
                /\ PercentLeq(progress_calls[i].progress, Hundred)
          /\ \A i \in 1..Len(progress_calls), j \in 1..Len(progress_calls) :
                i < j => PercentLeq(progress_calls[i].progress,
                                    progress_calls[j].progress))
    /\ [][bytes_uploaded' >= bytes_uploaded]_vars
    /\ [][(up_pc = "sleep" \/ (up_pc = "inflight" /\ up_pc' \in {"sleep", "done"}
                                /\ result'.kind # "video"))
            => bytes_uploaded' = bytes_uploaded]_vars

\* an upload of several chunks has reported its progress after each, one of
\* them sent again after a failed attempt, and has completed
C38_Witness ==
    /\ Len(progress_calls) >= 2
    /\ retries > 0
    /\ result.kind = "video"
    /\ bytes_uploaded = total_bytes
    /\ progress_calls[Len(progress_calls)].progress = Hundred
    /\ progress_calls[1].uploaded < total_bytes

(***************************************************************************)
(* Properties of the session manager                                       *)
(***************************************************************************)
\* the update_session calls have all ended
UpdatesDone == \A u \in Updaters : updaters[u].pc = "done"

\* C40: when the key was removed while an update_session call was in
\* progress, the session is absent once the calls have ended; and when two
\* calls that set different fields both returned True and the key was never
\* removed, the stored session has the value of each.
C40_NoRevivalNoLostWrite ==
    /\ (UpdatesDone /\ removed_during # {}) => ~session_store.present
    /\ (/\ UpdatesDone
        /\ removed_during = {}
        /\ session_store.present
        /\ \A u \in Updaters : updaters[u].ret = "true"
        /\ \A f \in SessionFields :
              Cardinality({u \in Updaters : updaters[u].updates[f].set}) <= 1)
       => \A u \in Updaters, f \in SessionFields :
              updaters[u].updates[f].set
              => session_store.data[f] = updaters[u].updates[f].value

=============================================================================
